---- MODULE Spec2Model ----
(***************************************************************************)
(* Session store (app/services/conversation_manager.py), audio cache       *)
(* (app/services/tts_service.py) and the route handlers (app/routes/       *)
(* chat.py, voice.py, health.py) of the voicebot backend, as a state       *)
(* machine.                                                                *)
(*                                                                         *)
(* Scheduling model.  The handlers are asyncio coroutines.  A coroutine    *)
(* runs without interruption between two awaits; every `async with         *)
(* self.session_lock` and every provider call is an await and is modelled  *)
(* as a scheduling point.  One action is therefore either "acquire the     *)
(* lock" (enabled only while the lock is free) or "run the body of the     *)
(* with-block, release, and run on to the next await".  CPython's          *)
(* asyncio.Lock does not actually suspend on an uncontended acquire; the   *)
(* model follows the documented contract of `await`, under which it may.   *)
(*                                                                         *)
(* Object identity.  self.sessions maps a session id to a dict object.     *)
(* uuid4 ids are never reused, so there is at most one session object per  *)
(* id ever: heap[id] is that object (it outlives its registry entry while  *)
(* a coroutine still holds a reference) and sessions is the key set of the *)
(* registry.  A handler's local `messages` is a reference to a list: it is *)
(* an alias of the list of a session object until trimming rebinds the     *)
(* session to a new list, after which it denotes the old list.             *)
(*                                                                         *)
(* Observation.  ret and resp describe the call return and the HTTP        *)
(* response made by the step that led to the current state; every other    *)
(* step resets them.                                                       *)
(***************************************************************************)
EXTENDS Integers, Sequences, FiniteSets, TLC

\* ---------------------------------------------------------------- bounds
MaxSessions == 1      \* uuid4 values drawn during a run
MaxTime     == 1      \* clock ticks during a run
MaxAppends  == 2      \* add_message calls made directly during a run
MaxLen      == 1      \* largest configured max_conversation_length
MaxTurns    == 2      \* chat, voice-chat, tts, health, messages requests
MaxSpeech   == 2      \* text_to_speech calls during a run
MaxTokens   == 2      \* small max_tokens arguments of chat_completion

\* settings.session_timeout_seconds (3600 s) in clock ticks.  A tick is a
\* lapse of time longer than the timeout: a session is expired as soon as
\* one tick separates the clock from its last activity.
session_timeout_seconds == 0

\* settings.max_audio_file_size_mb
max_audio_file_size_mb == 25

\* timedelta(hours=2) of _cleanup_old_audio_files in clock ticks: a tick
\* is also longer than the two hours an audio file is kept
audio_max_age == 0

Clients  == {"t1", "t2"}
Sweeper  == "sweeper"             \* _cleanup_expired_sessions
AudioSweeper == "audio_sweeper"   \* _cleanup_old_audio_files
Sweepers == {Sweeper, AudioSweeper}
Tasks    == Clients \cup Sweepers

\* uuid4 values: direct callers draw at most MaxSessions of them, the
\* route handlers at most MaxTurns
MaxIds     == IF MaxTurns > MaxSessions THEN MaxTurns ELSE MaxSessions
SessionIds == 1..MaxIds
UnknownId  == 0           \* an id string that uuid4 never produced
NoId       == -1          \* no session_id in the request (None)
NoSession  == [unallocated |-> TRUE]

\* Python values
None        == [none |-> TRUE]
PyBool(b)   == [bool |-> b]
PyStr(i)    == [str |-> i]
PyRef(i)    == [ref |-> i]      \* reference to the session object heap[i]
PyList(m)   == [list |-> m]     \* a list that no session refers to
PyDict(d)   == [dict |-> d]
Alias(i)    == [alias |-> i]    \* the list heap[i].messages itself
Raised(e)   == [raised |-> e]   \* an exception raised to the caller
Exceptions  == {Raised("TypeError"), Raised("OpenAIError")}

SystemMessage == [role |-> "system", content |-> 0]

\* the messages of a run are numbered 1, 2, ...; as in a conversation the
\* odd ones are spoken by the user and the even ones by the assistant
RoleOf(content) == IF content % 2 = 1 THEN "user" ELSE "assistant"

VARIABLES
  now,                      \* datetime.utcnow()
  max_conversation_length,  \* settings.max_conversation_length
  sessions,                 \* keys of ConversationManager.sessions
  heap,                     \* session dict objects, by id
  nextId,                   \* next uuid4 value
  session_lock,             \* asyncio.Lock._locked
  holders,                  \* tasks inside an `async with self.session_lock`
  pc,                       \* position of every task in the session store
  arg,                      \* arguments of the store call of a client
  session,                  \* local variable `session` of add_message
  h,                        \* frame of the route handler a client runs
  ret,                      \* the call return made by the last step
  resp,                     \* the HTTP response made by the last step
  published,                \* session ids sent to clients in responses
  appended,                 \* history: messages appended to each object
  nextContent,              \* next fresh message content
  turns,                    \* requests counted by MaxTurns still to come
  files,                    \* temp_audio/*.mp3, by audio id
  speech,                   \* generate_speech call of every client
  nextAudio                 \* next audio the provider synthesizes

vars == <<now, max_conversation_length, sessions, heap, nextId,
          session_lock, holders, pc, arg, session, h, ret, resp, published,
          appended, nextContent, turns, files, speech, nextAudio>>

NoArg == [session_id |-> UnknownId, role |-> "user", content |-> 0]
NoRet == [task |-> "none", op |-> "none", arg |-> NoArg, val |-> None]
NoResp == [task |-> "none", route |-> "none", status |-> 0,
           session_id |-> NoId, user |-> 0, reply |-> 0, failed |-> "none",
           upload |-> None, openai_connected |-> None, body |-> None]

\* a client that calls the session store directly (no route handler)
ApiFrame  == [at |-> "api", route |-> "none", session_id |-> NoId,
              messages |-> None, user |-> 0, reply |-> 0, upload |-> None,
              openai_connected |-> None]
\* a client with no request in progress
FreeFrame == [at |-> "free", route |-> "none", session_id |-> NoId,
              messages |-> None, user |-> 0, reply |-> 0, upload |-> None,
              openai_connected |-> None]

\* ------------------------------------------------------- pure functions

\* Python slice s[-k:] for k >= 0 (note that -0 == 0, so s[-0:] is s[0:])
PySuffix(s, k) ==
  IF k = 0 \/ k >= Len(s) THEN s
  ELSE SubSeq(s, Len(s) - k + 1, Len(s))

\* ConversationManager._create_session_data
_create_session_data ==
  [messages      |-> <<SystemMessage>>,
   created_at    |-> now,
   last_activity |-> now,
   message_count |-> 0]

\* mutant: the session already counts as expired at the timeout itself
_is_session_expired_AtTimeout(s) ==
  now - s.last_activity >= session_timeout_seconds

\* ConversationManager._is_session_expired
_is_session_expired(s) == now - s.last_activity > session_timeout_seconds

\* line 174: does _trim_conversation_history rebind session["messages"]
NeedsTrim(messages, L) == Len(messages) > L + 1

\* mutant: the window is cut from the whole list, system message included
TrimmedMessages_DropSystem(messages, L) ==
  IF NeedsTrim(messages, L)
  THEN PySuffix(messages, L + 1)
  ELSE messages

\* the list that session["messages"] is after _trim_conversation_history
TrimmedMessages(messages, L) ==
  IF NeedsTrim(messages, L)
  THEN <<messages[1]>> \o PySuffix(messages, L)
  ELSE messages

\* mutant: trimming sets the counter to the number of messages kept
_trim_conversation_history_ResetCount(hp, session_id) ==
  IF session_id \notin sessions THEN hp
  ELSE LET kept == TrimmedMessages(hp[session_id].messages,
                                   max_conversation_length)
       IN [hp EXCEPT ![session_id].messages = kept,
                     ![session_id].message_count = Len(kept) - 1]

\* ConversationManager._trim_conversation_history: looks the session up in
\* the registry by id; hp is the heap after the append
_trim_conversation_history(hp, session_id) ==
  IF session_id \notin sessions THEN hp
  ELSE [hp EXCEPT ![session_id].messages =
          TrimmedMessages(hp[session_id].messages, max_conversation_length)]

\* ------------------------------------------------------------ the lock

\* mutant: the with-block is entered without waiting for the lock
Acquire_NoWait(p) ==
  /\ session_lock' = TRUE
  /\ holders' = holders \cup {p}

Acquire(p) ==
  /\ ~session_lock
  /\ session_lock' = TRUE
  /\ holders' = holders \cup {p}

\* mutant: the task leaves the with-block and stays the lock's holder
Release_KeepHolder(p) ==
  /\ session_lock' = FALSE
  /\ holders' = holders

Release(p) ==
  /\ session_lock' = FALSE
  /\ holders' = holders \ {p}

\* no call returns and no response is sent in this step
NoEvent == ret' = NoRet /\ resp' = NoResp

\* ------------------------------------------- route handlers: control flow

\* the handler goes on to its next await
Continue(f, at) == [frame |-> [f EXCEPT !.at = at], resp |-> NoResp]

\* chat.py 124: msg["role"] != "system"
NotSystemRole(msg) == msg.role # "system"

\* chat.py 124: [msg for msg in messages if msg["role"] != "system"]
user_messages(messages) == SelectSeq(messages, NotSystemRole)

\* the list a local variable refers to
ListOf(v) ==
  IF v \in {Alias(i) : i \in SessionIds} THEN heap[v.alias].messages
  ELSE v.list

\* health.py 32: "healthy" if openai_connected else "degraded"
HealthStatus(openai_connected) ==
  IF openai_connected = PyBool(TRUE) THEN "healthy" ELSE "degraded"

\* mutant: the stored log is returned as it is, system message included
MessagesBody_Unfiltered(messages) ==
  [message_count |-> Len(messages), messages |-> messages]

\* chat.py 124-132: the body of GET /api/session/{id}/messages
MessagesBody(messages) ==
  [message_count |-> Len(user_messages(messages)),
   messages      |-> user_messages(messages)]

\* the data of a success response (chat.py 128-132, health.py 34-37)
ResponseBody(f, status) ==
  CASE status = 200 /\ f.route = "messages" ->
         MessagesBody(ListOf(f.messages))
    [] status = 200 /\ f.route = "health" ->
         [status |-> HealthStatus(f.openai_connected),
          openai_connected |-> f.openai_connected]
    [] OTHER -> None

\* the handler sends its response; failed names the call that raised
Finish(f, status, failed) ==
  [frame |-> FreeFrame,
   resp  |-> [task |-> "none", route |-> f.route, status |-> status,
              session_id |-> f.session_id, user |-> f.user,
              reply |-> f.reply, failed |-> failed, upload |-> f.upload,
              openai_connected |-> f.openai_connected,
              body |-> ResponseBody(f, status)]]

\* What the caller does with the value v of the store call it awaited, up
\* to its next await.  Positions are named after the call being awaited:
\*   chat.py 28/37 and voice.py 62/71  create, recreate
\*   chat.py 32/38/44, voice.py 66/72/78  get1, get2, get3
\*   chat.py 41/51, voice.py 75/85  add_user, add_assistant
\*   chat.py 87  delete
\*   health.py 27  stats
\*   chat.py 116  messages
After(f, v) ==
  CASE f.at = "api"      -> [frame |-> f, resp |-> NoResp]
    [] f.at = "create"   -> Continue([f EXCEPT !.session_id = v.str], "get1")
    [] f.at = "get1"     ->
         IF v = None
         THEN Continue([f EXCEPT !.messages = None], "recreate")
         ELSE Continue([f EXCEPT !.messages = v], "add_user")
    [] f.at = "recreate" -> Continue([f EXCEPT !.session_id = v.str], "get2")
    [] f.at = "get2"     -> Continue([f EXCEPT !.messages = v], "add_user")
    [] f.at = "add_user" -> Continue(f, "get3")
    [] f.at = "get3"     ->
         \* chat_completion(None) raises on len(messages) before any await
         IF v = None
         THEN Finish([f EXCEPT !.messages = None], 500, "chat_completion")
         ELSE Continue([f EXCEPT !.messages = v], "complete")
    [] f.at = "add_assistant" ->
         \* voice.py 89: generate_speech has no parameter `persist`, the
         \* call raises TypeError and the handler answers 500
         IF f.route = "chat" THEN Finish(f, 200, "none")
         ELSE Finish(f, 500, "generate_speech")
    [] f.at = "delete"   ->
         IF v = PyBool(TRUE) THEN Finish(f, 200, "none")
         ELSE Finish(f, 404, "none")
    [] f.at = "stats"    ->
         \* health.py 30-45: get_storage_stats does not await
         Finish(f, 200, "none")
    [] f.at = "messages" ->
         IF v = None THEN Finish(f, 404, "none")
         ELSE Finish([f EXCEPT !.messages = v], 200, "none")

\* ids a direct caller can name: ids handed out so far, or a string never
\* issued; a handler passes its local session_id
KnownIds == {UnknownId} \cup {i \in SessionIds : i < nextId}
IdArgs(p) == IF h[p].at = "api" THEN KnownIds ELSE {h[p].session_id}

\* the store call op(arg[p]) of client p returns val; the caller binds
\* local (val itself, or the reference val is a copy of) and runs on, in
\* frames hh
ReturnTo(p, op, val, local, hh) ==
  LET a == After(hh[p], local) IN
  /\ pc' = [pc EXCEPT ![p] = "idle"]
  /\ ret' = [task |-> p, op |-> op, arg |-> arg[p], val |-> val]
  /\ h' = [hh EXCEPT ![p] = a.frame]
  /\ resp' = IF a.resp = NoResp THEN NoResp ELSE [a.resp EXCEPT !.task = p]
  /\ published' = IF a.resp.status = 200 /\ a.resp.session_id \in SessionIds
                  THEN published \cup {a.resp.session_id}
                  ELSE published
  /\ arg' = [arg EXCEPT ![p] = NoArg]
  /\ session' = [session EXCEPT ![p] = None]

Return(p, op, val, local) == ReturnTo(p, op, val, local, h)

\* Clients that call the store directly are indistinguishable while they
\* are idle: the next direct call is made by one fixed idle client.
Caller ==
  CHOOSE q \in {c \in Clients : pc[c] = "idle" /\ h[c].at = "api"} : TRUE

\* client p begins a call of the session store
Starts(p) == pc[p] = "idle" /\ (h[p].at = "api" => p = Caller)

\* ------------------------------------------------------ create_session

\* lines 50-52: draw the id, enter the with-block
create_session_Acquire(p) ==
  /\ Starts(p)
  /\ h[p].at \in {"api", "create", "recreate"}
  /\ nextId <= (IF h[p].at = "api" THEN MaxSessions ELSE MaxTurns)
  /\ Acquire(p)
  /\ arg' = [arg EXCEPT ![p] = [NoArg EXCEPT !.session_id = nextId]]
  /\ nextId' = nextId + 1
  /\ pc' = [pc EXCEPT ![p] = "create_session"]
  /\ NoEvent
  /\ UNCHANGED <<now, max_conversation_length, sessions, heap, session, h,
                 published, appended, nextContent>>
  /\ UNCHANGED <<turns, files, speech, nextAudio>>

\* mutant: the session is stored under the id the client sent, if any
NewSessionKey_Supplied(p) ==
  IF h[p].session_id \in SessionIds THEN h[p].session_id
  ELSE arg[p].session_id

\* lines 50 and 53: the key of the new session is the uuid4 value drawn
NewSessionKey(p) == arg[p].session_id

\* lines 53-56
create_session_Body(p) ==
  /\ pc[p] = "create_session"
  /\ sessions' = sessions \cup {NewSessionKey(p)}
  /\ heap' = [heap EXCEPT ![NewSessionKey(p)] = _create_session_data]
  /\ Release(p)
  /\ Return(p, "create_session", PyStr(NewSessionKey(p)),
            PyStr(NewSessionKey(p)))
  /\ UNCHANGED <<now, max_conversation_length, nextId, appended, nextContent>>
  /\ UNCHANGED <<turns, files, speech, nextAudio>>

\* --------------------------------------------------------- get_session

\* mutant: the lookup forgets the expiry check
get_session_Result_NoExpiry(sid) ==
  IF sid \notin sessions THEN None ELSE PyRef(sid)

\* value returned by the body of get_session
get_session_Result(sid) ==
  IF sid \notin sessions THEN None
  ELSE IF _is_session_expired(heap[sid]) THEN None
  ELSE PyRef(sid)

\* registry after the body of get_session
get_session_Sessions(sid) ==
  IF sid \in sessions /\ _is_session_expired(heap[sid])
  THEN sessions \ {sid}
  ELSE sessions

get_session_Acquire(p) ==
  /\ Starts(p)
  /\ h[p].at = "api"
  /\ \E sid \in IdArgs(p) :
       arg' = [arg EXCEPT ![p] = [NoArg EXCEPT !.session_id = sid]]
  /\ Acquire(p)
  /\ pc' = [pc EXCEPT ![p] = "get_session"]
  /\ NoEvent
  /\ UNCHANGED <<now, max_conversation_length, sessions, heap, nextId,
                 session, h, published, appended, nextContent>>
  /\ UNCHANGED <<turns, files, speech, nextAudio>>

\* mutant: a lookup counts as activity and keeps the session alive
get_session_Body_KeepAlive(p) ==
  /\ pc[p] = "get_session"
  /\ heap' = IF arg[p].session_id \in sessions
             THEN [heap EXCEPT ![arg[p].session_id].last_activity = now]
             ELSE heap
  /\ Release(p)
  /\ Return(p, "get_session",
            IF arg[p].session_id \in sessions THEN PyRef(arg[p].session_id)
            ELSE None,
            IF arg[p].session_id \in sessions THEN PyRef(arg[p].session_id)
            ELSE None)
  /\ UNCHANGED <<now, max_conversation_length, sessions, nextId, appended,
                 nextContent>>
  /\ UNCHANGED <<turns, files, speech, nextAudio>>

\* lines 69-81
get_session_Body(p) ==
  /\ pc[p] = "get_session"
  /\ sessions' = get_session_Sessions(arg[p].session_id)
  /\ Release(p)
  /\ Return(p, "get_session", get_session_Result(arg[p].session_id),
            get_session_Result(arg[p].session_id))
  /\ UNCHANGED <<now, max_conversation_length, heap, nextId, appended,
                 nextContent>>
  /\ UNCHANGED <<turns, files, speech, nextAudio>>

\* --------------------------------------------------------- add_message

\* the arguments of the add_message call that client p makes next
add_message_Args(p) ==
  IF h[p].at = "api"
  THEN {[session_id |-> sid, role |-> RoleOf(nextContent),
         content |-> nextContent] : sid \in KnownIds}
  ELSE IF h[p].at = "add_user"
  THEN {[session_id |-> h[p].session_id, role |-> "user",
         content |-> h[p].user]}
  ELSE {[session_id |-> h[p].session_id, role |-> "assistant",
         content |-> h[p].reply]}

\* line 100, up to the `async with` inside get_session
add_message_Acquire(p) ==
  /\ Starts(p)
  /\ h[p].at \in {"api", "add_user", "add_assistant"}
  /\ h[p].at = "api" => nextContent <= MaxAppends
  /\ \E a \in add_message_Args(p) : arg' = [arg EXCEPT ![p] = a]
  /\ nextContent' = IF h[p].at = "api" THEN nextContent + 1 ELSE nextContent
  /\ Acquire(p)
  /\ pc' = [pc EXCEPT ![p] = "add_message_lookup"]
  /\ NoEvent
  /\ UNCHANGED <<now, max_conversation_length, sessions, heap, nextId,
                 session, h, published, appended>>
  /\ UNCHANGED <<turns, files, speech, nextAudio>>

\* mutant: add_message keeps the lock of its lookup when it goes on to
\* the second with-block
add_message_Lookup_KeepLock(p) ==
  /\ pc[p] = "add_message_lookup"
  /\ sessions' = get_session_Sessions(arg[p].session_id)
  /\ IF get_session_Result(arg[p].session_id) = None
     THEN /\ Release(p)
          /\ Return(p, "add_message", PyBool(FALSE), PyBool(FALSE))
     ELSE /\ UNCHANGED <<session_lock, holders>>
          /\ session' = [session EXCEPT ![p] =
                          get_session_Result(arg[p].session_id)]
          /\ pc' = [pc EXCEPT ![p] = "add_message_unlocked"]
          /\ NoEvent
          /\ UNCHANGED <<arg, h, published>>
  /\ UNCHANGED <<now, max_conversation_length, heap, nextId, appended,
                 nextContent>>
  /\ UNCHANGED <<turns, files, speech, nextAudio>>

\* lines 100-103: session = await self.get_session(session_id)
add_message_Lookup(p) ==
  /\ pc[p] = "add_message_lookup"
  /\ sessions' = get_session_Sessions(arg[p].session_id)
  /\ Release(p)
  /\ IF get_session_Result(arg[p].session_id) = None
     THEN Return(p, "add_message", PyBool(FALSE), PyBool(FALSE))
     ELSE /\ session' = [session EXCEPT ![p] =
                          get_session_Result(arg[p].session_id)]
          /\ pc' = [pc EXCEPT ![p] = "add_message_unlocked"]
          /\ NoEvent
          /\ UNCHANGED <<arg, h, published>>
  /\ UNCHANGED <<now, max_conversation_length, heap, nextId, appended,
                 nextContent>>
  /\ UNCHANGED <<turns, files, speech, nextAudio>>

\* line 105: async with self.session_lock
add_message_Reacquire(p) ==
  /\ pc[p] = "add_message_unlocked"
  /\ Acquire(p)
  /\ pc' = [pc EXCEPT ![p] = "add_message_locked"]
  /\ NoEvent
  /\ UNCHANGED <<now, max_conversation_length, sessions, heap, nextId, arg,
                 session, h, published, appended, nextContent>>
  /\ UNCHANGED <<turns, files, speech, nextAudio>>

\* mutant: the counter is not incremented
AppendedSession_NoCount(s, role, content) ==
  [s EXCEPT !.messages = Append(@, [role |-> role, content |-> content]),
            !.last_activity = now]

\* mutant: the append stamps the session with a clock that runs behind
AppendedSession_ClockBehind(s, role, content) ==
  [s EXCEPT !.messages = Append(@, [role |-> role, content |-> content]),
            !.last_activity = now - 1,
            !.message_count = @ + 1]

\* the session object after lines 107-114
AppendedSession(s, role, content) ==
  [s EXCEPT !.messages = Append(@, [role |-> role, content |-> content]),
            !.last_activity = now,
            !.message_count = @ + 1]

\* line 177 rebinds session["messages"] to a new list: a local variable
\* that referred to the list of session sid keeps the old list, old
Rebound(frames, sid, old) ==
  [q \in Clients |->
     IF frames[q].messages = Alias(sid)
     THEN [frames[q] EXCEPT !.messages = PyList(old)]
     ELSE frames[q]]

\* lines 106-124
add_message_Body(p) ==
  /\ pc[p] = "add_message_locked"
  /\ LET obj == session[p].ref
         sid == arg[p].session_id
         h1  == [heap EXCEPT ![obj] =
                   AppendedSession(heap[obj], arg[p].role, arg[p].content)]
         hh  == IF /\ sid \in sessions
                   /\ NeedsTrim(h1[sid].messages, max_conversation_length)
                THEN Rebound(h, sid, h1[sid].messages)
                ELSE h
     IN /\ heap' = _trim_conversation_history(h1, sid)
        /\ ReturnTo(p, "add_message", PyBool(TRUE), PyBool(TRUE), hh)
  /\ appended' = [appended EXCEPT ![session[p].ref] =
        Append(@, [role |-> arg[p].role, content |-> arg[p].content])]
  /\ Release(p)
  /\ UNCHANGED <<now, max_conversation_length, sessions, nextId, nextContent>>
  /\ UNCHANGED <<turns, files, speech, nextAudio>>

\* -------------------------------------------------------- get_messages

get_messages_Acquire(p) ==
  /\ Starts(p)
  /\ h[p].at \in {"api", "get1", "get2", "get3", "messages"}
  /\ \E sid \in IdArgs(p) :
       arg' = [arg EXCEPT ![p] = [NoArg EXCEPT !.session_id = sid]]
  /\ Acquire(p)
  /\ pc' = [pc EXCEPT ![p] = "get_messages"]
  /\ NoEvent
  /\ UNCHANGED <<now, max_conversation_length, sessions, heap, nextId,
                 session, h, published, appended, nextContent>>
  /\ UNCHANGED <<turns, files, speech, nextAudio>>

\* lines 136-141: the list object itself is returned
get_messages_Body(p) ==
  /\ pc[p] = "get_messages"
  /\ sessions' = get_session_Sessions(arg[p].session_id)
  /\ Release(p)
  /\ IF get_session_Result(arg[p].session_id) = None
     THEN Return(p, "get_messages", None, None)
     ELSE Return(p, "get_messages",
                 PyList(heap[arg[p].session_id].messages),
                 Alias(arg[p].session_id))
  /\ UNCHANGED <<now, max_conversation_length, heap, nextId, appended,
                 nextContent>>
  /\ UNCHANGED <<turns, files, speech, nextAudio>>

\* ------------------------------------------------------ delete_session

delete_session_Acquire(p) ==
  /\ Starts(p)
  /\ h[p].at \in {"api", "delete"}
  /\ \E sid \in IdArgs(p) :
       arg' = [arg EXCEPT ![p] = [NoArg EXCEPT !.session_id = sid]]
  /\ Acquire(p)
  /\ pc' = [pc EXCEPT ![p] = "delete_session"]
  /\ NoEvent
  /\ UNCHANGED <<now, max_conversation_length, sessions, heap, nextId,
                 session, h, published, appended, nextContent>>
  /\ UNCHANGED <<turns, files, speech, nextAudio>>

\* mutant: delete_session reports a removal whatever it found
delete_session_Result_Found(sid) == PyBool(TRUE)

\* lines 154-158: was the id in the registry
delete_session_Result(sid) == PyBool(sid \in sessions)

\* lines 153-158
delete_session_Body(p) ==
  /\ pc[p] = "delete_session"
  /\ sessions' = sessions \ {arg[p].session_id}
  /\ Release(p)
  /\ Return(p, "delete_session", delete_session_Result(arg[p].session_id),
            delete_session_Result(arg[p].session_id))
  /\ UNCHANGED <<now, max_conversation_length, heap, nextId, appended,
                 nextContent>>
  /\ UNCHANGED <<turns, files, speech, nextAudio>>

\* --------------------------------------------------- get_session_stats

RECURSIVE SumCounts(_)
SumCounts(S) ==
  IF S = {} THEN 0
  ELSE LET i == CHOOSE x \in S : TRUE
       IN heap[i].message_count + SumCounts(S \ {i})

\* mutant: only the sessions that are not expired are counted
SessionStats_LiveOnly ==
  LET live           == {i \in sessions : ~_is_session_expired(heap[i])}
      total_sessions == Cardinality(live)
      total_messages == SumCounts(live)
  IN [active_sessions |-> total_sessions,
      total_messages  |-> total_messages,
      avg_messages_per_session |->
        IF total_sessions > 0 THEN <<total_messages, total_sessions>>
        ELSE <<0, 1>>]

\* the dictionary returned by get_session_stats; the quotient is kept as
\* the pair <<numerator, denominator>>
SessionStats ==
  LET total_sessions == Cardinality(sessions)
      total_messages == SumCounts(sessions)
  IN [active_sessions |-> total_sessions,
      total_messages  |-> total_messages,
      avg_messages_per_session |->
        IF total_sessions > 0 THEN <<total_messages, total_sessions>>
        ELSE <<0, 1>>]

get_session_stats_Acquire(p) ==
  /\ Starts(p)
  /\ h[p].at \in {"api", "stats"}
  /\ Acquire(p)
  /\ pc' = [pc EXCEPT ![p] = "get_session_stats"]
  /\ NoEvent
  /\ UNCHANGED <<now, max_conversation_length, sessions, heap, nextId, arg,
                 session, h, published, appended, nextContent>>
  /\ UNCHANGED <<turns, files, speech, nextAudio>>

\* lines 216-228
get_session_stats_Body(p) ==
  /\ pc[p] = "get_session_stats"
  /\ Release(p)
  /\ Return(p, "get_session_stats", PyDict(SessionStats),
            PyDict(SessionStats))
  /\ UNCHANGED <<now, max_conversation_length, sessions, heap, nextId,
                 appended, nextContent>>
  /\ UNCHANGED <<turns, files, speech, nextAudio>>

\* -------------------------------------------- _cleanup_expired_sessions

\* lines 190-192: the sleep ends and the task enters the with-block
cleanup_Acquire ==
  /\ pc[Sweeper] = "sleep"
  /\ Acquire(Sweeper)
  /\ pc' = [pc EXCEPT ![Sweeper] = "cleanup"]
  /\ NoEvent
  /\ UNCHANGED <<now, max_conversation_length, sessions, heap, nextId, arg,
                 session, h, published, appended, nextContent>>
  /\ UNCHANGED <<turns, files, speech, nextAudio>>

\* mutant: the pass finds no session to remove
expired_sessions_None == {}

\* lines 193-197
expired_sessions == {sid \in sessions : _is_session_expired(heap[sid])}

\* one iteration of a sweep loop has ended with val
SweepEvent(task, op, input, val) ==
  /\ ret' = [task |-> task, op |-> op, arg |-> input, val |-> val]
  /\ resp' = NoResp

\* mutant: the task ends after its first pass instead of looping
cleanup_Body_Once ==
  /\ pc[Sweeper] = "cleanup"
  /\ sessions' = sessions \ expired_sessions
  /\ Release(Sweeper)
  /\ pc' = [pc EXCEPT ![Sweeper] = "done"]
  /\ SweepEvent(Sweeper, "_cleanup_expired_sessions", NoArg, None)
  /\ UNCHANGED <<now, max_conversation_length, heap, nextId, arg, session,
                 h, published, appended, nextContent>>
  /\ UNCHANGED <<turns, files, speech, nextAudio>>

\* lines 193-203
cleanup_Body ==
  /\ pc[Sweeper] = "cleanup"
  /\ sessions' = sessions \ expired_sessions
  /\ Release(Sweeper)
  /\ pc' = [pc EXCEPT ![Sweeper] = "sleep"]
  /\ SweepEvent(Sweeper, "_cleanup_expired_sessions", NoArg, None)
  /\ UNCHANGED <<now, max_conversation_length, heap, nextId, arg, session,
                 h, published, appended, nextContent>>
  /\ UNCHANGED <<turns, files, speech, nextAudio>>

\* An exception raised inside the with-block: the deletions made so far
\* stay, the lock is released on the way out of the block (line 192), the
\* handler of line 205 logs the exception and the loop goes on
cleanup_Fail ==
  /\ pc[Sweeper] = "cleanup"
  /\ \E deleted \in SUBSET expired_sessions :
       sessions' = sessions \ deleted
  /\ Release(Sweeper)
  /\ pc' = [pc EXCEPT ![Sweeper] = "sleep"]
  /\ SweepEvent(Sweeper, "_cleanup_expired_sessions", NoArg,
                Raised("Exception"))
  /\ UNCHANGED <<now, max_conversation_length, heap, nextId, arg, session,
                 h, published, appended, nextContent>>
  /\ UNCHANGED <<turns, files, speech, nextAudio>>

\* ------------------------------------------------------------ the clock

\* The clock is read only in the bodies of the with-blocks (lines 38-39,
\* 113 and 184), and every body is preceded by the step that grants the
\* lock.  Time that passed since the previous reading is added when a body
\* is about to run; adding it at an earlier step gives the same readings.
Tick ==
  /\ now < MaxTime
  /\ session_lock
  /\ now' = now + 1
  /\ NoEvent
  /\ UNCHANGED <<max_conversation_length, sessions, heap, nextId,
                 session_lock, holders, pc, arg, session, h, published,
                 appended, nextContent>>
  /\ UNCHANGED <<turns, files, speech, nextAudio>>

\* Time passes at any moment: the audio cache reads the clock outside the
\* lock (the mtime of a written file, the cutoff of the audio sweep)
Elapse ==
  /\ now < MaxTime
  /\ now' = now + 1
  /\ NoEvent
  /\ UNCHANGED <<max_conversation_length, sessions, heap, nextId,
                 session_lock, holders, pc, arg, session, h, published,
                 appended, nextContent>>
  /\ UNCHANGED <<turns, files, speech, nextAudio>>

\* ------------------------------------------------ route handlers: steps

\* session ids a client can send: none, one it was given, a made-up one
RequestIds == {NoId, UnknownId} \cup published

\* a handler that is waiting for a provider call, or has just sent its
\* response, makes a step of its own
HandlerStep(p, a) ==
  /\ h' = [h EXCEPT ![p] = a.frame]
  /\ resp' = IF a.resp = NoResp THEN NoResp ELSE [a.resp EXCEPT !.task = p]
  /\ published' = IF a.resp.status = 200 /\ a.resp.session_id \in SessionIds
                  THEN published \cup {a.resp.session_id}
                  ELSE published
  /\ ret' = NoRet

\* a new request: its frame, with the contents of the turn's two messages
NewFrame(route, at, sid) ==
  [at |-> at, route |-> route, session_id |-> sid, messages |-> None,
   user |-> nextContent, reply |-> nextContent + 1, upload |-> None,
   openai_connected |-> None]

\* chat.py 21-28: POST /api/chat arrives; `not session_id` decides whether
\* a session is created first
chat_Start(p) ==
  /\ h[p].at = "free"
  /\ turns > 0
  /\ \E sid \in RequestIds :
       HandlerStep(p, Continue(NewFrame("chat", "get1", sid),
                               IF sid = NoId THEN "create" ELSE "get1"))
  /\ nextContent' = nextContent + 2
  /\ turns' = turns - 1
  /\ UNCHANGED <<now, max_conversation_length, sessions, heap, nextId,
                 session_lock, holders, pc, arg, session, appended>>
  /\ UNCHANGED <<files, speech, nextAudio>>

\* settings.max_audio_file_size_bytes (config.py 55-57)
max_audio_file_size_bytes == max_audio_file_size_mb * 1024 * 1024

\* sizes of the uploads the clients send: at the ceiling and one byte over
UploadSizes == {max_audio_file_size_bytes, max_audio_file_size_bytes + 1}

\* names of the uploads the clients send, as strings of characters
Filenames == {<<"a", ".", "M", "P", "3">>, <<"a", ".", "t", "x", "t">>}

\* str.lower on the characters that occur in Filenames
LowerChar(c) ==
  CASE c = "M" -> "m"
    [] c = "P" -> "p"
    [] OTHER   -> c

Lower(s) == [i \in 1..Len(s) |-> LowerChar(s[i])]

\* str.endswith for one suffix
EndsWith(s, suffix) ==
  /\ Len(suffix) <= Len(s)
  /\ SubSeq(s, Len(s) - Len(suffix) + 1, Len(s)) = suffix

\* voice.py 44: the tuple of accepted extensions
SupportedExtensions ==
  {<<".", "w", "a", "v">>, <<".", "m", "p", "3">>,
   <<".", "w", "e", "b", "m">>, <<".", "m", "4", "a">>,
   <<".", "o", "g", "g">>}

\* mutant: a file of exactly the ceiling size is rejected
TooLarge_AtCeiling(size) == size >= max_audio_file_size_bytes

\* voice.py 37
TooLarge(size) == size > max_audio_file_size_bytes

\* voice.py 44
Supported(filename) ==
  \E e \in SupportedExtensions : EndsWith(Lower(filename), e)

\* voice.py 31-57: POST /api/voice-chat arrives; the size and the
\* extension of the upload are checked, then transcription is awaited
voice_chat_Start(p) ==
  /\ h[p].at = "free"
  /\ turns > 0
  /\ \E sid \in RequestIds, size \in UploadSizes, filename \in Filenames :
       LET f == [NewFrame("voice", "transcribe", sid) EXCEPT
                   !.upload = [size |-> size, filename |-> filename]]
           rejected == TooLarge(size) \/ ~Supported(filename)
       IN
       /\ HandlerStep(p, IF TooLarge(size) THEN Finish(f, 413, "none")
                         ELSE IF ~Supported(filename)
                         THEN Finish(f, 400, "none")
                         ELSE Continue(f, "transcribe"))
       /\ nextContent' = IF rejected THEN nextContent ELSE nextContent + 2
       /\ turns' = IF rejected THEN turns ELSE turns - 1
  /\ UNCHANGED <<now, max_conversation_length, sessions, heap, nextId,
                 session_lock, holders, pc, arg, session, appended>>
  /\ UNCHANGED <<files, speech, nextAudio>>

\* voice.py 57-62: transcribe_audio returns the text or raises
\* what transcribe_audio gives the handler: the text, or the provider's
\* error re-raised (openai_service.py lines 113-120)
Transcriptions(f) == {PyStr(f.user), Raised("OpenAIError")}

\* mutant: a failed transcription is taken for a text and the turn goes on
voice_chat_Transcribed_Swallow(f, val) ==
  IF f.session_id = NoId THEN Continue(f, "create") ELSE Continue(f, "get1")

\* voice.py line 57, then lines 116-123 on an error or line 61 on a text
voice_chat_Transcribed(f, val) ==
  IF val \in Exceptions THEN Finish(f, 500, "transcribe_audio")
  ELSE IF f.session_id = NoId THEN Continue(f, "create")
  ELSE Continue(f, "get1")

transcribe_audio_Return(p) ==
  /\ h[p].at = "transcribe"
  /\ \E val \in Transcriptions(h[p]) :
       LET a == voice_chat_Transcribed(h[p], val)
       IN /\ h' = [h EXCEPT ![p] = a.frame]
          /\ resp' = IF a.resp = NoResp THEN NoResp
                     ELSE [a.resp EXCEPT !.task = p]
          /\ ret' = [task |-> p, op |-> "transcribe_audio", arg |-> NoArg,
                     val |-> val]
          /\ UNCHANGED published
  /\ UNCHANGED <<now, max_conversation_length, sessions, heap, nextId,
                 session_lock, holders, pc, arg, session, appended,
                 nextContent>>
  /\ UNCHANGED <<turns, files, speech, nextAudio>>

\* chat.py 48 and voice.py 82: chat_completion returns the reply or raises
\* (provider error or timeout)
chat_completion_Return(p) ==
  /\ h[p].at = "complete"
  /\ \E ok \in BOOLEAN :
       HandlerStep(p, IF ok THEN Continue(h[p], "add_assistant")
                      ELSE Finish(h[p], 500, "chat_completion"))
  /\ UNCHANGED <<now, max_conversation_length, sessions, heap, nextId,
                 session_lock, holders, pc, arg, session, appended,
                 nextContent>>
  /\ UNCHANGED <<turns, files, speech, nextAudio>>

\* chat.py 84-87: DELETE /api/session/{session_id} arrives
delete_Start(p) ==
  /\ h[p].at = "free"
  /\ \E sid \in RequestIds \ {NoId} :
       HandlerStep(p, Continue(NewFrame("delete", "delete", sid), "delete"))
  /\ UNCHANGED <<now, max_conversation_length, sessions, heap, nextId,
                 session_lock, holders, pc, arg, session, appended,
                 nextContent>>
  /\ UNCHANGED <<turns, files, speech, nextAudio>>

\* ---------------------------------------------------------- audio cache
\* (app/services/tts_service.py)  Strings are sequences of characters; the
\* empty string stands for every falsy voice argument (None or "").

\* settings.openai_tts_voice
openai_tts_voice == <<"a", "l", "l", "o", "y">>

\* texts and voice arguments the callers pass
Texts     == {<<"a">>, <<"a", ":", "b">>}
VoiceArgs == {<<>>, <<"b", ":", "a", "l", "l", "o", "y">>}

\* hashlib.md5(...).hexdigest(): equal inputs give equal digests; collisions
\* of the digest itself are left out
md5(content) == [md5 |-> content]

\* line 57: voice or settings.openai_tts_voice
VoiceOrDefault(voice) == IF voice = <<>> THEN openai_tts_voice ELSE voice

\* line 32: f"{text}:{voice}"
KeyContent(text, voice) == text \o <<":">> \o voice

\* TTSService._generate_audio_id
_generate_audio_id(text, voice) == md5(KeyContent(text, voice))

\* ids of the audio the callers can name
AudioIds ==
  {_generate_audio_id(t, VoiceOrDefault(v)) : t \in Texts, v \in VoiceArgs}

NoFiles == [k \in {} |-> None]

\* the store with the file of audio_id written (lines 73-74)
Written(audio_id, bytes) ==
  (audio_id :> [bytes |-> bytes, mtime |-> now]) @@ files

\* the store with the files of ids unlinked
Unlinked(ids) == [k \in DOMAIN files \ ids |-> files[k]]

\* parameters of generate_speech (lines 39-44)
generate_speech_Parameters == {"text", "voice", "use_cache"}

\* calls made directly: every text, voice and use_cache, and the call of
\* the voice-chat route (voice.py 89-93), which passes `persist`
DirectCalls ==
  {[text |-> t, voice |-> v, use_cache |-> u,
    keywords |-> {"text", "voice", "use_cache"}] :
     t \in Texts, v \in VoiceArgs, u \in BOOLEAN}
  \cup
  {[text |-> t, voice |-> <<>>, use_cache |-> FALSE,
    keywords |-> {"text", "use_cache", "persist"}] : t \in Texts}

\* calls of the /api/tts route (voice.py 137-140): use_cache is left to
\* its default
RouteCalls ==
  {[text |-> t, voice |-> v, use_cache |-> TRUE,
    keywords |-> {"text", "voice"}] : t \in Texts, v \in VoiceArgs}

SpeechCalls(p) == IF h[p].at = "api" THEN DirectCalls ELSE RouteCalls

\* the status a handler of /api/tts, GET /api/audio/{id} or DELETE
\* /api/audio/{id} answers with when its call of the audio cache gave val
\* (voice.py 135-162, 174-201, 213-232)
AudioStatus(val) ==
  IF val \in Exceptions THEN 500
  ELSE IF val \in {None, PyBool(FALSE)} THEN 404
  ELSE 200

\* the call of client p returns or raises val, and its handler answers
SpeechReturn(p, op, call, val) ==
  LET a == IF h[p].at = "api" THEN [frame |-> h[p], resp |-> NoResp]
           ELSE Finish(h[p], AudioStatus(val),
                       IF val \in Exceptions THEN op ELSE "none")
  IN /\ ret' = [task |-> p, op |-> op, arg |-> call, val |-> val]
     /\ h' = [h EXCEPT ![p] = a.frame]
     /\ resp' = IF a.resp = NoResp THEN NoResp
                ELSE [a.resp EXCEPT !.task = p]
     /\ pc' = [pc EXCEPT ![p] = "idle"]
     /\ speech' = [speech EXCEPT ![p] = None]

\* line 62: use_cache and audio_path.exists()
CacheHit(call, audio_id) == call.use_cache /\ audio_id \in DOMAIN files

\* lines 39-70: the call binds its arguments (an unexpected keyword raises
\* TypeError), computes the id and either returns the cached file or
\* awaits openai_service.text_to_speech
generate_speech_Call(p) ==
  /\ Starts(p)
  /\ h[p].at \in {"api", "generate_speech"}
  /\ \E call \in SpeechCalls(p) :
       LET voice    == VoiceOrDefault(call.voice)
           audio_id == _generate_audio_id(call.text, voice)
       IN
       IF ~(call.keywords \subseteq generate_speech_Parameters)
       THEN /\ SpeechReturn(p, "generate_speech", call, Raised("TypeError"))
            /\ UNCHANGED <<files, nextAudio>>
       ELSE IF CacheHit(call, audio_id)
       THEN /\ SpeechReturn(p, "generate_speech", call,
                            [audio_id |-> audio_id,
                             bytes |-> files[audio_id].bytes])
            /\ UNCHANGED <<files, nextAudio>>
       ELSE /\ nextAudio <= MaxSpeech
            /\ speech' = [speech EXCEPT ![p] =
                 [call |-> call, audio_id |-> audio_id, bytes |-> nextAudio]]
            /\ nextAudio' = nextAudio + 1
            /\ pc' = [pc EXCEPT ![p] = "text_to_speech"]
            /\ NoEvent
            /\ UNCHANGED <<files, h>>
  /\ UNCHANGED <<now, max_conversation_length, sessions, heap, nextId,
                 session_lock, holders, arg, session, published,
                 appended, nextContent, turns>>

\* mutant: the file is opened for writing before the audio is awaited, so
\* a failed synthesis leaves an empty file
generate_speech_Return_OpenFirst(p) ==
  /\ pc[p] = "text_to_speech"
  /\ \E ok \in BOOLEAN :
       IF ok
       THEN /\ files' = Written(speech[p].audio_id, speech[p].bytes)
            /\ SpeechReturn(p, "generate_speech", speech[p].call,
                            [audio_id |-> speech[p].audio_id,
                             bytes |-> speech[p].bytes])
       ELSE /\ files' = Written(speech[p].audio_id, 0)
            /\ SpeechReturn(p, "generate_speech", speech[p].call,
                            Raised("OpenAIError"))
  /\ UNCHANGED <<now, max_conversation_length, sessions, heap, nextId,
                 session_lock, holders, arg, session, published,
                 appended, nextContent, turns, nextAudio>>

\* lines 70-85: text_to_speech returns the audio, which is written to the
\* file of the id and returned, or raises
generate_speech_Return(p) ==
  /\ pc[p] = "text_to_speech"
  /\ \E ok \in BOOLEAN :
       IF ok
       THEN /\ files' = Written(speech[p].audio_id, speech[p].bytes)
            /\ SpeechReturn(p, "generate_speech", speech[p].call,
                            [audio_id |-> speech[p].audio_id,
                             bytes |-> speech[p].bytes])
       ELSE /\ files' = files
            /\ SpeechReturn(p, "generate_speech", speech[p].call,
                            Raised("OpenAIError"))
  /\ UNCHANGED <<now, max_conversation_length, sessions, heap, nextId,
                 session_lock, holders, arg, session, published,
                 appended, nextContent, turns, nextAudio>>

\* TTSService.get_audio (lines 97-108)
get_audio(p) ==
  /\ Starts(p)
  /\ h[p].at \in {"api", "get_audio"}
  /\ \E audio_id \in AudioIds, read_ok \in BOOLEAN :
       SpeechReturn(p, "get_audio",
                    [audio_id |-> audio_id, io_ok |-> read_ok],
                    IF audio_id \in DOMAIN files /\ read_ok
                    THEN [bytes |-> files[audio_id].bytes]
                    ELSE None)
  /\ UNCHANGED <<now, max_conversation_length, sessions, heap, nextId,
                 session_lock, holders, arg, session, published,
                 appended, nextContent, turns, files, nextAudio>>

\* mutant: True is returned whether or not a file was there
delete_audio_Result_Always(audio_id, unlink_ok) == PyBool(unlink_ok)

\* lines 121-131: True after the unlink of an existing file, False when
\* there is no file or the unlink raised
delete_audio_Result(audio_id, unlink_ok) ==
  PyBool(audio_id \in DOMAIN files /\ unlink_ok)

\* TTSService.delete_audio (lines 120-131)
delete_audio(p) ==
  /\ Starts(p)
  /\ h[p].at \in {"api", "delete_audio"}
  /\ \E audio_id \in AudioIds, unlink_ok \in BOOLEAN :
       /\ files' = IF unlink_ok THEN Unlinked({audio_id}) ELSE files
       /\ SpeechReturn(p, "delete_audio",
                       [audio_id |-> audio_id, io_ok |-> unlink_ok],
                       delete_audio_Result(audio_id, unlink_ok))
  /\ UNCHANGED <<now, max_conversation_length, sessions, heap, nextId,
                 session_lock, holders, arg, session, published,
                 appended, nextContent, turns, nextAudio>>

\* mutant: a file whose mtime is the cutoff itself is unlinked as well
OldFiles_AtCutoff ==
  {k \in DOMAIN files : files[k].mtime <= now - audio_max_age}

\* files whose mtime is before the cutoff (lines 139-146)
OldFiles == {k \in DOMAIN files : files[k].mtime < now - audio_max_age}

\* mutant: a failure on one file ends the pass
SweptFiles_StopAtFailure(failing, aborted) ==
  IF aborted \/ failing # {} THEN SUBSET (OldFiles \ failing)
  ELSE {OldFiles \ failing}

\* The sets of files one pass can unlink.  stat or unlink raises for the
\* old files in failing, which are logged and skipped (lines 143-150; a
\* failure on a file that is not old leaves it in place as well); a pass
\* aborted by an exception outside the inner try has unlinked some of the
\* others (lines 155-156).
SweptFiles(failing, aborted) ==
  IF aborted THEN SUBSET (OldFiles \ failing)
  ELSE {OldFiles \ failing}

\* TTSService._cleanup_old_audio_files: one iteration of the loop, from the
\* end of the sleep to the next sleep (no await in between)
cleanup_old_audio_files_Pass ==
  /\ pc[AudioSweeper] = "sleep"
  /\ \E failing \in SUBSET OldFiles, aborted \in BOOLEAN :
       \E swept \in SweptFiles(failing, aborted) :
          /\ files' = Unlinked(swept)
          /\ SweepEvent(AudioSweeper, "_cleanup_old_audio_files",
                        [failing |-> failing, aborted |-> aborted],
                        IF aborted THEN Raised("Exception") ELSE None)
  /\ UNCHANGED <<now, max_conversation_length, sessions, heap, nextId,
                 session_lock, holders, pc, arg, session, h, published,
                 appended, nextContent, turns, speech, nextAudio>>

\* ------------------------------------------- routes /api/tts, /api/health

\* voice.py 127-140: POST /api/tts arrives
tts_Start(p) ==
  /\ h[p].at = "free"
  /\ turns > 0
  /\ HandlerStep(p, Continue(NewFrame("tts", "generate_speech", NoId),
                             "generate_speech"))
  /\ turns' = turns - 1
  /\ UNCHANGED <<now, max_conversation_length, sessions, heap, nextId,
                 session_lock, holders, pc, arg, session, appended,
                 nextContent, files, speech, nextAudio>>

\* chat.py 109-116: GET /api/session/{session_id}/messages arrives
messages_Start(p) ==
  /\ h[p].at = "free"
  /\ turns > 0
  /\ \E sid \in RequestIds \ {NoId} :
       HandlerStep(p, Continue(NewFrame("messages", "messages", sid),
                               "messages"))
  /\ turns' = turns - 1
  /\ UNCHANGED <<now, max_conversation_length, sessions, heap, nextId,
                 session_lock, holders, pc, arg, session, appended,
                 nextContent, files, speech, nextAudio>>

\* voice.py 166-175 and 205-214: GET or DELETE /api/audio/{audio_id}
\* arrives
audio_Start(p) ==
  /\ h[p].at = "free"
  /\ \E at \in {"get_audio", "delete_audio"} :
       HandlerStep(p, Continue(NewFrame(at, at, NoId), at))
  /\ UNCHANGED <<now, max_conversation_length, sessions, heap, nextId,
                 session_lock, holders, pc, arg, session, appended,
                 nextContent, turns, files, speech, nextAudio>>

\* health.py 15-24: GET /api/health arrives and awaits check_connection
health_Start(p) ==
  /\ h[p].at = "free"
  /\ turns > 0
  /\ HandlerStep(p, Continue(NewFrame("health", "check_connection", NoId),
                             "check_connection"))
  /\ turns' = turns - 1
  /\ UNCHANGED <<now, max_conversation_length, sessions, heap, nextId,
                 session_lock, holders, pc, arg, session, appended,
                 nextContent, files, speech, nextAudio>>

\* openai_service.py 181: await self.client.models.list() returns, or
\* raises because the provider is down
PingOutcomes == {None, Raised("OpenAIError")}

\* mutant: the error of the provider call is passed on to the caller
check_connection_Reraise(outcome) ==
  IF outcome \in Exceptions THEN outcome ELSE PyBool(TRUE)

\* openai_service.py 179-184: True when the provider call returned, False
\* when it raised
check_connection(outcome) ==
  IF outcome \in Exceptions THEN PyBool(FALSE) ELSE PyBool(TRUE)

\* health.py 24: check_connection returns to the handler, which has no
\* try block: an exception would end the request with 500
check_connection_Return(p) ==
  /\ h[p].at = "check_connection"
  /\ \E outcome \in PingOutcomes :
       LET val == check_connection(outcome)
           a   == IF val \in Exceptions
                  THEN Finish(h[p], 500, "check_connection")
                  ELSE Continue([h[p] EXCEPT !.openai_connected = val],
                                "stats")
       IN /\ h' = [h EXCEPT ![p] = a.frame]
          /\ resp' = IF a.resp = NoResp THEN NoResp
                     ELSE [a.resp EXCEPT !.task = p]
          /\ ret' = [task |-> p, op |-> "check_connection",
                     arg |-> outcome, val |-> val]
          /\ UNCHANGED published
  /\ UNCHANGED <<now, max_conversation_length, sessions, heap, nextId,
                 session_lock, holders, pc, arg, session, appended,
                 nextContent, turns, files, speech, nextAudio>>

\* ----------------------------------------------------- chat_completion
\* (app/services/openai_service.py)  A temperature is counted in tenths:
\* 7 stands for 0.7 and 0 for 0.0.

PyNum(n) == [num |-> n]

\* settings.openai_max_tokens
openai_max_tokens == 1000

\* settings.openai_temperature
openai_temperature == 7

\* line 37: a temperature lies between 0.0 and 2.0
MaxTemperature == 20

\* the temperature argument of a call: None (not given) or a number
Temperatures == {None} \cup {PyNum(t) : t \in 0..MaxTemperature}

\* the max_tokens argument of a call: None (not given) or a number
TokenBudgets ==
  {None} \cup {PyNum(n) : n \in 0..MaxTokens} \cup {PyNum(openai_max_tokens)}

\* the values Python's `or` skips
Falsy(v) == v \in {None, PyNum(0), PyBool(FALSE)}

\* a or b
PyOr(a, b) == IF Falsy(a) THEN b ELSE a

\* lines 49-54: the keyword arguments of chat.completions.create
CompletionRequest(temperature, max_tokens) ==
  [temperature |-> PyOr(temperature, PyNum(openai_temperature)),
   max_tokens  |-> PyOr(max_tokens, PyNum(openai_max_tokens))]

\* lines 26-54: a caller passes temperature and max_tokens, and the request
\* is sent to the provider
chat_completion_Call(p) ==
  /\ Starts(p)
  /\ h[p].at = "api"
  /\ \E temperature \in Temperatures, max_tokens \in TokenBudgets :
       ret' = [task |-> p, op |-> "chat_completion",
               arg |-> [temperature |-> temperature,
                        max_tokens |-> max_tokens],
               val |-> CompletionRequest(temperature, max_tokens)]
  /\ resp' = NoResp
  /\ UNCHANGED <<now, max_conversation_length, sessions, heap, nextId,
                 session_lock, holders, pc, arg, session, h, published,
                 appended, nextContent, turns, files, speech, nextAudio>>

\* ------------------------------------------------------ specifications

TypeOK ==
  /\ now \in 0..MaxTime
  /\ max_conversation_length \in 0..MaxLen
  /\ sessions \subseteq SessionIds
  /\ nextId \in 1..(MaxIds + 1)
  /\ session_lock \in BOOLEAN
  /\ holders \subseteq Tasks
  /\ published \subseteq SessionIds

\* the state after construction; the clients run `frame`, the configured
\* conversation length is one of lengths, and n chat or voice-chat requests
\* are going to arrive
Setup(frame, lengths, n) ==
  /\ now = 0
  /\ max_conversation_length \in lengths
  /\ sessions = {}
  /\ heap = [i \in SessionIds |-> NoSession]
  /\ nextId = 1
  /\ session_lock = FALSE
  /\ holders = {}
  /\ pc = [p \in Tasks |-> IF p \in Sweepers THEN "sleep" ELSE "idle"]
  /\ arg = [p \in Clients |-> NoArg]
  /\ session = [p \in Clients |-> None]
  /\ h = [p \in Clients |-> frame]
  /\ ret = NoRet
  /\ resp = NoResp
  /\ published = {}
  /\ appended = [i \in SessionIds |-> <<>>]
  /\ nextContent = 1
  /\ turns = n
  /\ files = NoFiles
  /\ speech = [p \in Clients |-> None]
  /\ nextAudio = 1

\* the session store, called directly by concurrent tasks
Init == Setup(ApiFrame, 0..MaxLen, 0)

Next ==
  \/ \E p \in Clients : create_session_Acquire(p)
  \/ \E p \in Clients : create_session_Body(p)
  \/ \E p \in Clients : get_session_Acquire(p)
  \/ \E p \in Clients : get_session_Body(p)
  \/ \E p \in Clients : add_message_Acquire(p)
  \/ \E p \in Clients : add_message_Lookup(p)
  \/ \E p \in Clients : add_message_Reacquire(p)
  \/ \E p \in Clients : add_message_Body(p)
  \/ \E p \in Clients : get_messages_Acquire(p)
  \/ \E p \in Clients : get_messages_Body(p)
  \/ \E p \in Clients : delete_session_Acquire(p)
  \/ \E p \in Clients : delete_session_Body(p)
  \/ \E p \in Clients : get_session_stats_Acquire(p)
  \/ \E p \in Clients : get_session_stats_Body(p)
  \/ cleanup_Acquire
  \/ cleanup_Body
  \/ Tick

Spec == Init /\ [][Next]_vars

\* the HTTP routes, serving concurrent requests
InitChat == Setup(FreeFrame, {MaxLen}, MaxTurns)

NextChat ==
  \/ \E p \in Clients : chat_Start(p)
  \/ \E p \in Clients : voice_chat_Start(p)
  \/ \E p \in Clients : transcribe_audio_Return(p)
  \/ \E p \in Clients : chat_completion_Return(p)
  \/ \E p \in Clients : delete_Start(p)
  \/ \E p \in Clients : create_session_Acquire(p)
  \/ \E p \in Clients : create_session_Body(p)
  \/ \E p \in Clients : add_message_Acquire(p)
  \/ \E p \in Clients : add_message_Lookup(p)
  \/ \E p \in Clients : add_message_Reacquire(p)
  \/ \E p \in Clients : add_message_Body(p)
  \/ \E p \in Clients : get_messages_Acquire(p)
  \/ \E p \in Clients : get_messages_Body(p)
  \/ \E p \in Clients : delete_session_Acquire(p)
  \/ \E p \in Clients : delete_session_Body(p)
  \/ cleanup_Acquire
  \/ cleanup_Body
  \/ Tick

SpecChat == InitChat /\ [][NextChat]_vars

\* the HTTP routes with the clock stopped: no session expires and the sweep
\* of the sessions finds nothing to do
InitTurns == Setup(FreeFrame, {MaxLen}, MaxTurns)

NextTurns ==
  \/ \E p \in Clients : chat_Start(p)
  \/ \E p \in Clients : voice_chat_Start(p)
  \/ \E p \in Clients : transcribe_audio_Return(p)
  \/ \E p \in Clients : chat_completion_Return(p)
  \/ \E p \in Clients : delete_Start(p)
  \/ \E p \in Clients : tts_Start(p)
  \/ \E p \in Clients : health_Start(p)
  \/ \E p \in Clients : check_connection_Return(p)
  \/ \E p \in Clients : generate_speech_Call(p)
  \/ \E p \in Clients : generate_speech_Return(p)
  \/ \E p \in Clients : create_session_Acquire(p)
  \/ \E p \in Clients : create_session_Body(p)
  \/ \E p \in Clients : add_message_Acquire(p)
  \/ \E p \in Clients : add_message_Lookup(p)
  \/ \E p \in Clients : add_message_Reacquire(p)
  \/ \E p \in Clients : add_message_Body(p)
  \/ \E p \in Clients : get_messages_Acquire(p)
  \/ \E p \in Clients : get_messages_Body(p)
  \/ \E p \in Clients : delete_session_Acquire(p)
  \/ \E p \in Clients : delete_session_Body(p)
  \/ \E p \in Clients : get_session_stats_Acquire(p)
  \/ \E p \in Clients : get_session_stats_Body(p)

SpecTurns == InitTurns /\ [][NextTurns]_vars

\* chat requests only, one more than MaxTurns, so that two of them can run
\* at once on a session an earlier one has created
InitShared == Setup(FreeFrame, {MaxLen}, MaxTurns + 1)

NextShared ==
  \/ \E p \in Clients : chat_Start(p)
  \/ \E p \in Clients : chat_completion_Return(p)
  \/ \E p \in Clients : create_session_Acquire(p)
  \/ \E p \in Clients : create_session_Body(p)
  \/ \E p \in Clients : add_message_Acquire(p)
  \/ \E p \in Clients : add_message_Lookup(p)
  \/ \E p \in Clients : add_message_Reacquire(p)
  \/ \E p \in Clients : add_message_Body(p)
  \/ \E p \in Clients : get_messages_Acquire(p)
  \/ \E p \in Clients : get_messages_Body(p)

SpecShared == InitShared /\ [][NextShared]_vars

\* the audio cache, called directly by concurrent tasks
InitAudio == Setup(ApiFrame, {MaxLen}, 0)

NextAudio ==
  \/ \E p \in Clients : generate_speech_Call(p)
  \/ \E p \in Clients : generate_speech_Return(p)
  \/ \E p \in Clients : get_audio(p)
  \/ \E p \in Clients : delete_audio(p)
  \/ cleanup_old_audio_files_Pass
  \/ Elapse

SpecAudio == InitAudio /\ [][NextAudio]_vars

\* the two background sweeps, and one client that creates the sessions and
\* the audio files they sweep
Worker == CHOOSE p \in Clients : TRUE

\* the clients of the lookup routes
LookupClients == {Worker}

InitSweep == Setup(ApiFrame, {MaxLen}, 0)

NextSweep ==
  \/ create_session_Acquire(Worker)
  \/ create_session_Body(Worker)
  \/ generate_speech_Call(Worker)
  \/ generate_speech_Return(Worker)
  \/ cleanup_Acquire
  \/ cleanup_Body
  \/ cleanup_Fail
  \/ cleanup_old_audio_files_Pass
  \/ Elapse

SpecSweep == InitSweep /\ [][NextSweep]_vars

\* the routes that look a session or an audio file up, with the routes that
\* create them, the sweep of the sessions and the clock
InitLookup == Setup(FreeFrame, {MaxLen}, MaxTurns)

NextLookup ==
  \/ \E p \in LookupClients : chat_Start(p)
  \/ \E p \in LookupClients : chat_completion_Return(p)
  \/ \E p \in LookupClients : delete_Start(p)
  \/ \E p \in LookupClients : messages_Start(p)
  \/ \E p \in LookupClients : tts_Start(p)
  \/ \E p \in LookupClients : audio_Start(p)
  \/ \E p \in LookupClients : generate_speech_Call(p)
  \/ \E p \in LookupClients : generate_speech_Return(p)
  \/ \E p \in LookupClients : get_audio(p)
  \/ \E p \in LookupClients : delete_audio(p)
  \/ \E p \in LookupClients : create_session_Acquire(p)
  \/ \E p \in LookupClients : create_session_Body(p)
  \/ \E p \in LookupClients : add_message_Acquire(p)
  \/ \E p \in LookupClients : add_message_Lookup(p)
  \/ \E p \in LookupClients : add_message_Reacquire(p)
  \/ \E p \in LookupClients : add_message_Body(p)
  \/ \E p \in LookupClients : get_messages_Acquire(p)
  \/ \E p \in LookupClients : get_messages_Body(p)
  \/ \E p \in LookupClients : delete_session_Acquire(p)
  \/ \E p \in LookupClients : delete_session_Body(p)
  \/ cleanup_Acquire
  \/ cleanup_Body
  \/ Elapse

SpecLookup == InitLookup /\ [][NextLookup]_vars

\* the session store with one caller, the sweep of the sessions and the
\* clock, for the properties of progress
InitLive == Setup(ApiFrame, {MaxLen}, 0)

\* a step that ends a with-block of a client and releases session_lock
LockedStep ==
  \/ create_session_Body(Worker)
  \/ get_session_Body(Worker)
  \/ add_message_Lookup(Worker)
  \/ add_message_Body(Worker)
  \/ delete_session_Body(Worker)

NextLive ==
  \/ create_session_Acquire(Worker)
  \/ get_session_Acquire(Worker)
  \/ add_message_Acquire(Worker)
  \/ add_message_Reacquire(Worker)
  \/ delete_session_Acquire(Worker)
  \/ LockedStep
  \/ cleanup_Acquire
  \/ cleanup_Body
  \/ Elapse

\* The body of a with-block has no await that suspends it (lines 50-54,
\* 69-81, 106-122, 153-158, 193-203), so the holder of the lock reaches
\* its release; the sweep loop wakes from asyncio.sleep(300) and waits for
\* the lock, which asyncio.Lock grants to its waiters in turn
FairLive ==
  /\ WF_vars(LockedStep)
  /\ WF_vars(cleanup_Body)
  /\ SF_vars(cleanup_Acquire)

SpecLive == InitLive /\ [][NextLive]_vars /\ FairLive

\* every operation of the session store, with the sweep of the sessions,
\* its failures and the clock, for the progress of the calls
InitProgress == Setup(ApiFrame, {MaxLen}, 0)

\* the callers of the store in SpecProgress
ProgressClients == {Worker}

\* a step of client p that ends a with-block and releases session_lock
CallStep(p) ==
  \/ create_session_Body(p)
  \/ get_session_Body(p)
  \/ add_message_Lookup(p)
  \/ add_message_Body(p)
  \/ get_messages_Body(p)
  \/ delete_session_Body(p)
  \/ get_session_stats_Body(p)

\* the sweeper leaves its with-block, normally or by an exception
SweepStep == cleanup_Body \/ cleanup_Fail

NextProgress ==
  \/ \E p \in ProgressClients : create_session_Acquire(p)
  \/ \E p \in ProgressClients : get_session_Acquire(p)
  \/ \E p \in ProgressClients : add_message_Acquire(p)
  \/ \E p \in ProgressClients : add_message_Reacquire(p)
  \/ \E p \in ProgressClients : get_messages_Acquire(p)
  \/ \E p \in ProgressClients : delete_session_Acquire(p)
  \/ \E p \in ProgressClients : get_session_stats_Acquire(p)
  \/ \E p \in ProgressClients : CallStep(p)
  \/ cleanup_Acquire
  \/ SweepStep
  \/ Elapse

\* Fair scheduling: a task that is ready inside a with-block (whose body
\* has no suspending await) runs and leaves the block; a task that waits
\* for session_lock in the middle of add_message (line 105) gets it, since
\* asyncio.Lock grants the lock to its waiters in turn
FairProgress ==
  /\ \A p \in ProgressClients : WF_vars(CallStep(p))
  /\ \A p \in ProgressClients : SF_vars(add_message_Reacquire(p))
  /\ WF_vars(SweepStep)

SpecProgress == InitProgress /\ [][NextProgress]_vars /\ FairProgress

\* the chat and voice-chat routes of one client, with DELETE, the sweep of
\* the sessions and the clock: the session ids the client sends may have
\* been deleted or have expired
InitResolve == Setup(FreeFrame, {MaxLen}, MaxTurns)

NextResolve ==
  \/ chat_Start(Worker)
  \/ voice_chat_Start(Worker)
  \/ transcribe_audio_Return(Worker)
  \/ chat_completion_Return(Worker)
  \/ delete_Start(Worker)
  \/ create_session_Acquire(Worker)
  \/ create_session_Body(Worker)
  \/ add_message_Acquire(Worker)
  \/ add_message_Lookup(Worker)
  \/ add_message_Reacquire(Worker)
  \/ add_message_Body(Worker)
  \/ get_messages_Acquire(Worker)
  \/ get_messages_Body(Worker)
  \/ delete_session_Acquire(Worker)
  \/ delete_session_Body(Worker)
  \/ cleanup_Acquire
  \/ cleanup_Body
  \/ Elapse

SpecResolve == InitResolve /\ [][NextResolve]_vars

\* the audio cache with one caller, its sweep and the clock
InitCache == Setup(ApiFrame, {MaxLen}, 0)

NextCache ==
  \/ generate_speech_Call(Worker)
  \/ generate_speech_Return(Worker)
  \/ get_audio(Worker)
  \/ delete_audio(Worker)
  \/ cleanup_old_audio_files_Pass
  \/ Elapse

SpecCache == InitCache /\ [][NextCache]_vars

\* chat_completion, called with every temperature and token budget
InitCompletion == Setup(ApiFrame, {MaxLen}, 0)

NextCompletion == \E p \in Clients : chat_completion_Call(p)

SpecCompletion == InitCompletion /\ [][NextCompletion]_vars

\* ================================================================ claims

Allocated(i) == heap[i] # NoSession

\* now - last_activity > session_timeout, written out
Expired(i) == now - heap[i].last_activity > session_timeout_seconds
ExpiredNext(i) == now' - heap'[i].last_activity > session_timeout_seconds

Live(i) == i \in sessions /\ ~Expired(i)

NonSystem(messages) == SelectSeq(messages, LAMBDA m : m.role # "system")

LastN(s, n) == SubSeq(s, Len(s) - n + 1, Len(s))

IsSuffix(s, t) == Len(s) <= Len(t) /\ s = LastN(t, Len(s))

Min(a, b) == IF a < b THEN a ELSE b

\* the step in which client p leaves position `at`
Leaves(p, at) == pc[p] = at /\ pc'[p] # at

C2_RegistryUnchanged ==
  [][\A p \in Clients :
       (/\ Leaves(p, "add_message_lookup")
        /\ (arg[p].session_id \notin sessions \/ Expired(arg[p].session_id)))
       => /\ ret'.op = "add_message" /\ ret'.val = PyBool(FALSE)
          /\ sessions' = sessions
          /\ heap' = heap]_vars

\* C2 as amended: add_message on an absent or expired id returns False,
\* does not create a session under that id and changes no session object;
\* the only change to the registry is that the entry of the id is evicted
\* when it was still present (expired).
C2_NoResurrection ==
  [][\A p \in Clients :
       (/\ Leaves(p, "add_message_lookup")
        /\ (arg[p].session_id \notin sessions \/ Expired(arg[p].session_id)))
       => /\ ret'.op = "add_message" /\ ret'.val = PyBool(FALSE)
          /\ ret'.task = p /\ pc'[p] = "idle"
          /\ sessions' = sessions \ {arg[p].session_id}
          /\ heap' = heap]_vars

\* add_message has just returned False for a session that expired
C2_Witness ==
  /\ ret.op = "add_message" /\ ret.val = PyBool(FALSE)
  /\ ret.arg.session_id # UnknownId
  /\ Allocated(ret.arg.session_id)
  /\ Expired(ret.arg.session_id)
  /\ ret.arg.session_id \notin sessions

\* ---- C3
\* C3: a chat or voice-chat turn whose chat_completion call fails commits
\* nothing: neither message of the turn has been appended to any session
\* (log and message_count are as before the turn).
C3_NoPartialCommit ==
  (resp.status = 500 /\ resp.failed = "chat_completion") =>
     \A i \in SessionIds :
        /\ \A k \in 1..Len(appended[i]) :
              appended[i][k].content \notin {resp.user, resp.reply}
        /\ Allocated(i) =>
              \A k \in 1..Len(heap[i].messages) :
                 heap[i].messages[k].content \notin {resp.user, resp.reply}

\* ---- C4
\* C4: for every configured length L and every N > L, after N successful
\* appends the stored history is the system message followed by the last L
\* appended messages, in append order (length L + 1).
C4_TrimWindow ==
  \A i \in sessions :
     Len(appended[i]) > max_conversation_length =>
        heap[i].messages =
          <<SystemMessage>> \o LastN(appended[i], max_conversation_length)

\* ---- C5
\* C5: every session in the registry has a non-empty message list whose
\* first element is the pinned system message, and the other messages of
\* the list are appended messages in their append order.
C5_SystemPinned ==
  \A i \in sessions :
     /\ Len(heap[i].messages) >= 1
     /\ heap[i].messages[1] = SystemMessage
     /\ IsSuffix(NonSystem(heap[i].messages), appended[i])

\* a session in the registry whose history has been trimmed
C5_Witness ==
  \E i \in sessions :
     /\ max_conversation_length >= 1
     /\ Len(appended[i]) > max_conversation_length
     /\ Len(heap[i].messages) = max_conversation_length + 1

\* ---- C6
\* C6: get_session on an expired session returns None and removes the
\* entry; on a session that is not expired it returns the session and
\* removes nothing; an id that is gone from the registry stays gone, and
\* get_session on it returns None.
C6_LazyEviction ==
  [][/\ \A p \in Clients :
          Leaves(p, "get_session") =>
            LET sid == arg[p].session_id IN
              /\ ret'.op = "get_session" /\ ret'.task = p
              /\ (sid \in sessions /\ Expired(sid)) =>
                    (ret'.val = None /\ sessions' = sessions \ {sid})
              /\ (sid \in sessions /\ ~Expired(sid)) =>
                    (ret'.val = PyRef(sid) /\ sessions' = sessions)
              /\ sid \notin sessions =>
                    (ret'.val = None /\ sessions' = sessions)
     /\ \A i \in SessionIds :
          (Allocated(i) /\ i \notin sessions) => i \notin sessions'
    ]_vars

\* get_session has just returned None for a session that was in the
\* registry and had expired
C6_Witness ==
  /\ ret.op = "get_session" /\ ret.val = None
  /\ ret.arg.session_id # UnknownId
  /\ Allocated(ret.arg.session_id)
  /\ Expired(ret.arg.session_id)
  /\ ret.arg.session_id \notin sessions

\* ---- C7
RECURSIVE SumLiveCounts(_)
SumLiveCounts(S) ==
  IF S = {} THEN 0
  ELSE LET i == CHOOSE x \in S : TRUE
       IN heap[i].message_count + SumLiveCounts(S \ {i})

\* C7: an expired session is never observed as a live one: get_session and
\* get_messages return a session only if it is not expired, and
\* get_session_stats counts only sessions that are not expired.
C7_ExpiredNotObserved ==
  /\ (ret.op \in {"get_session", "get_messages"} /\ ret.val # None)
        => Live(ret.arg.session_id)
  /\ ret.op = "get_session_stats" =>
        /\ ret.val.dict.active_sessions =
             Cardinality({i \in sessions : ~Expired(i)})
        /\ ret.val.dict.total_messages =
             SumLiveCounts({i \in sessions : ~Expired(i)})

\* ---- C8
\* C8: an id that has left the registry never comes back, and a session
\* that is expired is never live again.
C8_Lifecycle ==
  [][\A i \in SessionIds :
       /\ (Allocated(i) /\ i \notin sessions) => i \notin sessions'
       /\ (i \in sessions /\ Expired(i)) =>
             ~(i \in sessions' /\ ~ExpiredNext(i))]_vars

\* ---- C9
\* C9: appends to one session are serialized: the counter of the session
\* equals the number of add_message calls that returned True for it, and
\* the stored messages after the system message are those appends, each at
\* most once, in the order they were made, the oldest ones removed only by
\* the trim window.
C9_AppendsSerialized ==
  \A i \in sessions :
     /\ heap[i].message_count = Len(appended[i])
     /\ IsSuffix(NonSystem(heap[i].messages), appended[i])
     /\ Len(NonSystem(heap[i].messages)) >=
          Min(Len(appended[i]), max_conversation_length)
     /\ \A j, k \in 1..Len(appended[i]) :
          appended[i][j] = appended[i][k] => j = k

\* one client's add_message has returned True while another client is
\* between the lookup and the mutation of its add_message on the same
\* session
C9_Witness ==
  /\ ret.op = "add_message" /\ ret.val = PyBool(TRUE)
  /\ ret.arg.session_id \in sessions
  /\ \E q \in Clients \ {ret.task} :
       /\ pc[q] = "add_message_unlocked"
       /\ arg[q].session_id = ret.arg.session_id

\* ---- C10
\* C10: at most one task holds session_lock; every step that changes the
\* registry or a session object, and the statistics read, is the body of a
\* with-block of a task that holds the lock.
C10_LockDiscipline ==
  /\ [](Cardinality(holders) <= 1 /\ (session_lock <=> holders # {}))
  /\ [][(sessions' # sessions \/ heap' # heap
           \/ ret'.op = "get_session_stats")
        => \E p \in holders : pc'[p] # pc[p] /\ holders' = {}]_vars

\* a client holds the lock for the mutation of add_message while the other
\* client waits for it with a lookup already done
C10_Witness ==
  \E p, q \in Clients :
     /\ p # q
     /\ holders = {p}
     /\ pc[p] = "add_message_locked"
     /\ pc[q] = "add_message_unlocked"

\* ---- C11
\* C11: no task is suspended in a provider call or in the audio cache
\* while it holds session_lock, and the lock is taken while such calls are
\* in flight only by other tasks.  The provider calls are transcribe_audio
\* (voice.py 57), chat_completion (chat.py 48, voice.py 82),
\* check_connection (health.py 24) and text_to_speech (tts_service.py 70);
\* the file I/O of the audio cache is synchronous and is part of the steps
\* around it.
C11_NoLockInProviderCall ==
  \A p \in Clients :
     \/ h[p].at \in {"transcribe", "complete", "check_connection"}
     \/ pc[p] = "text_to_speech"
     \/ h[p].at = "generate_speech"
     => p \notin holders

\* two requests on different sessions both wait for chat_completion
C11_Witness ==
  \E p, q \in Clients :
     /\ h[p].at = "complete" /\ h[q].at = "complete"
     /\ h[p].session_id # h[q].session_id
     /\ {h[p].session_id, h[q].session_id} \subseteq sessions

\* ---- C12
\* C12: a pass of the session sweep is the body of a with-block of the
\* sweeper, which holds session_lock alone; right after it no session of
\* the registry is expired, and every session that was not expired is
\* still in the registry, its object (messages, message_count,
\* last_activity) unchanged.
C12_SweepRemovesExpired ==
  [][ret'.op = "_cleanup_expired_sessions" /\ ret'.val = None
       => /\ holders = {Sweeper} /\ pc[Sweeper] = "cleanup"
          /\ holders' = {} /\ ~session_lock'
          /\ \A i \in sessions' : ~ExpiredNext(i)
          /\ \A i \in sessions :
                ~Expired(i) => i \in sessions' /\ heap'[i] = heap[i]
          /\ sessions' \subseteq sessions]_vars

\* a pass has just ended and an expired session is out of the registry
C12_Witness ==
  /\ ret.op = "_cleanup_expired_sessions"
  /\ ret.val = None
  /\ \E i \in SessionIds : Allocated(i) /\ Expired(i) /\ i \notin sessions

\* ---- C13
\* C13: an iteration of the session sweep or of the audio sweep that ends
\* with an exception leaves its loop at the next sleep, with session_lock
\* released, so that the next iteration can start; a pass of the audio
\* sweep in which stat or unlink fails on some files still unlinks every
\* other old file, and unlinks nothing else.
C13_SweepsSurviveFailures ==
  [][/\ ret'.op = "_cleanup_expired_sessions" /\ ret'.val = Raised("Exception")
        => /\ pc'[Sweeper] = "sleep"
           /\ ~session_lock' /\ holders' = {}
           /\ sessions' \subseteq sessions /\ heap' = heap
     /\ ret'.op = "_cleanup_old_audio_files"
        => /\ pc'[AudioSweeper] = "sleep"
           /\ session_lock' = session_lock /\ holders' = holders
           /\ DOMAIN files' \subseteq DOMAIN files
           /\ \A k \in DOMAIN files' : files'[k] = files[k]
           /\ DOMAIN files \ OldFiles \subseteq DOMAIN files'
           /\ ret'.arg.failing \subseteq DOMAIN files'
           /\ ret'.val = None
                => DOMAIN files' = DOMAIN files \ (OldFiles \ ret'.arg.failing)
    ]_vars

\* a pass of the audio sweep has failed on one old file, which is still
\* there, and has unlinked the other file synthesized before
C13_Witness ==
  /\ ret.op = "_cleanup_old_audio_files"
  /\ ret.val = None
  /\ ret.arg.failing # {}
  /\ DOMAIN files = ret.arg.failing
  /\ \E k \in DOMAIN files : files[k].bytes = 1
  /\ nextAudio = 3
  /\ \A p \in Clients : pc[p] = "idle"

\* ---- C14
\* C14: a call generate_speech(text, use_cache=False, persist=False), the
\* call of the voice-chat turn, returns synthesized audio and leaves the
\* store of audio files as it was, so that no artifact is retrievable
\* under the key afterwards unless one was there before.
C14_EphemeralSpeech ==
  [][/\ ret'.op = "generate_speech"
     /\ "persist" \in ret'.arg.keywords
     /\ ~ret'.arg.use_cache
     => /\ ret'.val \notin Exceptions
        /\ files' = files]_vars

\* ---- C15
\* the key of a call
KeyOf(call) == _generate_audio_id(call.text, VoiceOrDefault(call.voice))

\* C15: a call of generate_speech with use_cache true and an artifact
\* under its key returns the stored bytes at once, without synthesis and
\* without touching the store; every other call awaits text_to_speech once
\* and, when that returns, writes the audio under its id exactly when
\* persist is true.
C15_FetchOrSynthesize ==
  [][/\ \A p \in Clients :
          pc[p] = "idle" /\ pc'[p] = "text_to_speech"
          => ~(speech'[p].call.use_cache
               /\ KeyOf(speech'[p].call) \in DOMAIN files)
     /\ ret'.op = "generate_speech"
        => LET call == ret'.arg
               id   == KeyOf(call)
           IN IF pc[ret'.task] = "idle"
              THEN /\ call.use_cache /\ id \in DOMAIN files
                   /\ ret'.val = [audio_id |-> id,
                                  bytes |-> files[id].bytes]
                   /\ files' = files /\ nextAudio' = nextAudio
              ELSE /\ pc[ret'.task] = "text_to_speech"
                   /\ ret'.val \notin Exceptions
                      => /\ ret'.val.audio_id = id
                         /\ IF "persist" \notin call.keywords
                            THEN files' = Written(id, ret'.val.bytes)
                            ELSE files' = files
                   /\ ret'.val \in Exceptions => files' = files]_vars

\* ---- C16
\* C16: the id is a function of the pair (text, voice), and two calls
\* whose pairs differ in text or in voice never hash the same string: two
\* syntheses in flight under one id are for the same text and voice.
C16_DistinctPairsDistinctKeys ==
  \A p, q \in Clients :
     /\ pc[p] = "text_to_speech" /\ pc[q] = "text_to_speech"
     /\ speech[p].audio_id = speech[q].audio_id
     => /\ speech[p].call.text = speech[q].call.text
        /\ VoiceOrDefault(speech[p].call.voice)
             = VoiceOrDefault(speech[q].call.voice)

\* ---- C17
\* message number c of the run was appended to session i
Recorded(i, c) == \E k \in 1..Len(appended[i]) : appended[i][k].content = c

\* C17: a chat or voice-chat request answers 200 only for a turn whose
\* user message and assistant reply were both appended to the session
\* named in the response; a failed add_message ends the turn with an
\* error.
C17_NoSilentRecovery ==
  (resp.status = 200 /\ resp.route \in {"chat", "voice"}) =>
     /\ resp.session_id \in SessionIds
     /\ Recorded(resp.session_id, resp.user)
     /\ Recorded(resp.session_id, resp.reply)

\* ---- C18
\* position of message number c in the log of session i (0: not there)
PositionOf(i, c) ==
  IF Recorded(i, c)
  THEN CHOOSE k \in 1..Len(appended[i]) : appended[i][k].content = c
  ELSE 0

C19_UploadRejectedEarly ==
  [][\A p \in Clients :
       LET rejected == /\ resp'.task = p /\ resp'.route = "voice"
                       /\ resp'.status \in {413, 400}
           accepted == /\ h[p].at = "free" /\ h'[p].route = "voice"
                       /\ h'[p].at = "transcribe"
           upload   == IF accepted THEN h'[p].upload ELSE resp'.upload
       IN rejected \/ accepted
          => /\ h[p].at = "free"
             /\ upload.size > max_audio_file_size_bytes
                  <=> rejected /\ resp'.status = 413
             /\ (/\ upload.size <= max_audio_file_size_bytes
                 /\ ~Supported(upload.filename))
                  <=> rejected /\ resp'.status = 400
             /\ rejected
                  => /\ h'[p].at = "free"
                     /\ UNCHANGED <<sessions, heap, nextId, appended,
                                    published, files, nextAudio, turns,
                                    session_lock, holders>>]_vars

\* a file one byte over the ceiling has just been answered 413
C19_Witness ==
  /\ resp.route = "voice" /\ resp.status = 413
  /\ resp.upload.size = max_audio_file_size_bytes + 1
  /\ sessions = {}

\* ---- C20
\* C20: delete_session(id) returns True exactly when id is in the registry
\* when its with-block runs; the registry then loses that id and nothing
\* else, and no session object changes; an id that has left the registry
\* never comes back, so a delete that follows a successful one returns
\* False and changes nothing.
C20_DeleteExactlyOnce ==
  [][/\ ret'.op = "delete_session"
        => LET id == ret'.arg.session_id
           IN /\ ret'.val = PyBool(id \in sessions)
              /\ sessions' = sessions \ {id}
              /\ heap' = heap
              /\ ret'.val = PyBool(FALSE) => sessions' = sessions
     /\ \A i \in SessionIds :
           Allocated(i) /\ i \notin sessions => i \notin sessions'
    ]_vars

\* delete_session has just returned False for a session that is not
\* expired: it had been deleted before
C20_Witness ==
  /\ ret.op = "delete_session"
  /\ ret.val = PyBool(FALSE)
  /\ ret.arg.session_id \in SessionIds
  /\ Allocated(ret.arg.session_id)
  /\ ~Expired(ret.arg.session_id)

\* ---- C21
\* C21: get_session_stats computes its dictionary in one step of the task
\* that holds session_lock: active_sessions is the number of sessions in
\* the registry, total_messages the sum of their message_count, and
\* avg_messages_per_session their quotient, or 0 when the registry is
\* empty; the call changes nothing.
C21_StatsSnapshot ==
  [][ret'.op = "get_session_stats"
       => LET stats == ret'.val.dict
              n     == Cardinality(sessions)
              total == SumLiveCounts(sessions)
          IN /\ holders = {ret'.task}
             /\ stats.active_sessions = n
             /\ stats.total_messages = total
             /\ stats.avg_messages_per_session =
                  (IF n > 0 THEN <<total, n>> ELSE <<0, 1>>)
             /\ sessions' = sessions /\ heap' = heap]_vars

\* after a create and two appends the statistics report one session with
\* two messages
C21_Witness ==
  /\ ret.op = "get_session_stats"
  /\ ret.val.dict.active_sessions = 1
  /\ ret.val.dict.total_messages = 2
  /\ ret.val.dict.avg_messages_per_session = <<2, 1>>
  /\ \E i \in sessions : Len(appended[i]) = 2

\* ---- C22
\* C22: the message_count of a session is 0 when the session is created;
\* a step changes it only by adding exactly 1, and does so exactly when it
\* is the return of a successful add_message for that session; trimming
\* the history leaves it alone.
C22_MessageCount ==
  [][\A i \in SessionIds :
       /\ ~Allocated(i) /\ heap'[i] # NoSession
            => heap'[i].message_count = 0
       /\ Allocated(i)
            => /\ heap'[i] # NoSession
               /\ heap'[i].message_count
                    \in {heap[i].message_count, heap[i].message_count + 1}
               /\ heap'[i].message_count = heap[i].message_count + 1
                    <=> /\ ret'.op = "add_message"
                        /\ ret'.val = PyBool(TRUE)
                        /\ ret'.arg.session_id = i]_vars

\* two appends with a window of one message: the history was trimmed to
\* the system message and the last append, the counter is 2
C22_Witness ==
  /\ max_conversation_length = 1
  /\ \E i \in sessions :
        /\ heap[i].message_count = 2
        /\ Len(heap[i].messages) = 2
        /\ Len(appended[i]) = 2

\* C23: a lookup route answers 404 when its target is absent (for the two
\* session routes: absent from the registry or expired) and success when it
\* is present; an audio route whose file operation fails is left aside
C23_NotFound ==
  [][LET sid      == resp'.session_id
         audio_id == ret'.arg.audio_id
     IN /\ resp'.route \in {"delete", "messages"}
             => resp'.status = (IF Live(sid) THEN 200 ELSE 404)
        /\ (resp'.route \in {"get_audio", "delete_audio"} /\ ret'.arg.io_ok)
             => resp'.status = (IF audio_id \in DOMAIN files
                                THEN 200 ELSE 404)]_vars

\* C24: GET /api/session/{id}/messages on a live session answers 200 with
\* the stored messages whose role is not "system", in the stored order, and
\* with message_count equal to the number of messages returned
C24_MessagesWithoutSystem ==
  [][LET sid    == resp'.session_id
         stored == heap[sid].messages
         body   == resp'.body
     IN (resp'.route = "messages" /\ Live(sid))
          => /\ resp'.status = 200
             /\ body.messages = NonSystem(stored)
             /\ \A k \in 1..Len(body.messages) :
                  body.messages[k].role # "system"
             /\ body.message_count = Len(body.messages)]_vars

C24_Witness ==
  /\ resp.route = "messages"
  /\ resp.status = 200
  /\ resp.session_id \in sessions
  /\ resp.body.message_count = 1
  /\ Len(heap[resp.session_id].messages) = 2
  /\ heap[resp.session_id].messages[1].role = "system"

\* C25: check_connection returns True or False and never raises, False
\* exactly when the provider call failed; GET /api/health is always
\* answered 200, with status "healthy" when check_connection returned True
\* and "degraded" when it returned False
C25_HealthNeverFails ==
  [][/\ ret'.op = "check_connection"
          => /\ ret'.val \in {PyBool(TRUE), PyBool(FALSE)}
             /\ (ret'.val = PyBool(FALSE)) <=> (ret'.arg \in Exceptions)
             /\ resp' = NoResp
             /\ h'[ret'.task].openai_connected = ret'.val
     /\ resp'.route = "health"
          => /\ resp'.status = 200
             /\ resp'.failed = "none"
             /\ resp'.body.openai_connected = h[resp'.task].openai_connected
             /\ resp'.body.status =
                  (IF resp'.body.openai_connected = PyBool(TRUE)
                   THEN "healthy" ELSE "degraded")]_vars

C25_Witness ==
  /\ resp.route = "health"
  /\ resp.status = 200
  /\ resp.body.status = "degraded"
  /\ resp.body.openai_connected = PyBool(FALSE)

\* C26: a new session has last_activity = created_at; afterwards
\* last_activity never decreases, so it stays at or after created_at, and a
\* step that changes it is an add_message on that session returning True
C26_LastActivityForward ==
  [][\A i \in SessionIds :
       /\ (~Allocated(i) /\ heap'[i] # NoSession)
            => heap'[i].last_activity = heap'[i].created_at
       /\ (Allocated(i) /\ heap'[i] # NoSession)
            => /\ heap'[i].created_at = heap[i].created_at
               /\ heap'[i].last_activity >= heap[i].last_activity
               /\ heap'[i].last_activity >= heap'[i].created_at
               /\ heap'[i].last_activity # heap[i].last_activity
                    => /\ ret'.op = "add_message"
                       /\ ret'.val = PyBool(TRUE)
                       /\ ret'.arg.session_id = i]_vars

C26_Witness ==
  /\ ret.op = "add_message"
  /\ ret.val = PyBool(TRUE)
  /\ heap[ret.arg.session_id].created_at = 0
  /\ heap[ret.arg.session_id].last_activity = 1
  /\ Len(appended[ret.arg.session_id]) = 2

\* C27: a session that is in the registry and expired is eventually out of
\* the registry, unless a further append makes it live again first
C27_ExpiredEventuallyRemoved ==
  \A i \in SessionIds :
    (i \in sessions /\ Expired(i)) ~> (i \notin sessions \/ ~Expired(i))

\* a pass of the sweep has just ended, at the end of time, and an expired
\* session is out of the registry
C27_Witness ==
  /\ ret.op = "_cleanup_expired_sessions"
  /\ pc[Sweeper] = "sleep"
  /\ now = MaxTime
  /\ sessions = {}
  /\ \E i \in SessionIds : Allocated(i) /\ Expired(i)

\* the contents of the list that the local variable `messages` of frame f
\* refers to, when the session objects are hp
HistoryOf(f, hp) ==
  IF f.messages \in {Alias(i) : i \in SessionIds}
  THEN hp[f.messages.alias].messages
  ELSE f.messages.list

\* C28: while a chat turn awaits chat_completion, the list it passed to the
\* call keeps its contents, whatever the other requests do
C28_HistoryNotShared ==
  [][\A p \in Clients :
       (h[p].at = "complete" /\ h'[p].at = "complete")
         => HistoryOf(h'[p], heap') = HistoryOf(h[p], heap)]_vars

\* C29: the request chat_completion sends carries the caller's temperature
\* and max_tokens whenever the caller gave one, 0 included, and the
\* configured default only for an argument the caller did not give
C29_CallerParameters ==
  [][ret'.op = "chat_completion"
       => LET given == ret'.arg
              sent  == ret'.val
          IN /\ sent.temperature =
                  (IF given.temperature = None
                   THEN PyNum(openai_temperature) ELSE given.temperature)
             /\ sent.max_tokens =
                  (IF given.max_tokens = None
                   THEN PyNum(openai_max_tokens) ELSE given.max_tokens)]_vars

\* C30: get_audio leaves the store as it is and returns the bytes stored
\* under the id (when the read succeeds), or None when nothing is stored
\* under it; delete_audio returns True exactly when a file was stored under
\* the id and the call removed it, and then only that file is gone;
\* otherwise it returns False and leaves the store as it is.  So a
\* get_audio or a second delete_audio after a successful delete finds
\* nothing and returns None or False.
C30_CacheGetDelete ==
  [][LET audio_id == ret'.arg.audio_id
         present  == audio_id \in DOMAIN files
     IN /\ ret'.op = "get_audio"
             => /\ files' = files
                /\ (present /\ ret'.arg.io_ok)
                     => ret'.val = [bytes |-> files[audio_id].bytes]
                /\ ~present => ret'.val = None
        /\ ret'.op = "delete_audio"
             => /\ ret'.val \in {PyBool(TRUE), PyBool(FALSE)}
                /\ (ret'.val = PyBool(TRUE))
                     <=> (present /\ audio_id \notin DOMAIN files')
                /\ ret'.val = PyBool(TRUE)
                     => files' = [k \in DOMAIN files \ {audio_id} |-> files[k]]
                /\ ret'.val = PyBool(FALSE) => files' = files
                /\ ~present => ret'.val = PyBool(FALSE)]_vars

\* a delete_audio has just removed a file
C30_Witness ==
  /\ ret.op = "delete_audio"
  /\ ret.val = PyBool(TRUE)
  /\ ret.arg.audio_id \notin DOMAIN files
  /\ nextAudio > 1

\* C31: a pass of the audio sweep in which no file operation fails unlinks
\* exactly the files older than max_age; every pass keeps every younger
\* file as it is; the pass leaves session_lock, its holders, the session
\* sweeper, the registry and the session objects as they are; and no step
\* of the session sweep changes the audio files.
C31_SweepsIndependent ==
  [][/\ ret'.op = "_cleanup_old_audio_files"
          => /\ \A k \in DOMAIN files :
                   ~(now - files[k].mtime > audio_max_age)
                     => k \in DOMAIN files' /\ files'[k] = files[k]
             /\ DOMAIN files' \subseteq DOMAIN files
             /\ (ret'.val = None /\ ret'.arg.failing = {})
                  => DOMAIN files'
                       = {k \in DOMAIN files :
                            ~(now - files[k].mtime > audio_max_age)}
             /\ session_lock' = session_lock
             /\ holders' = holders
             /\ AudioSweeper \notin holders'
             /\ pc'[Sweeper] = pc[Sweeper]
             /\ sessions' = sessions
             /\ heap' = heap
     /\ (pc'[Sweeper] # pc[Sweeper] \/ ret'.op = "_cleanup_expired_sessions")
          => files' = files]_vars

\* a pass without failure has just ended: of the two files synthesized,
\* only the second, written at the present time, is left
C31_Witness ==
  /\ ret.op = "_cleanup_old_audio_files"
  /\ ret.val = None
  /\ ret.arg.failing = {}
  /\ nextAudio = 3
  /\ Cardinality(DOMAIN files) = 1
  /\ \A k \in DOMAIN files : files[k].bytes = 2 /\ files[k].mtime = now
  /\ sessions # {}

\* C32: after every step that leaves session_lock free, each session of
\* the registry holds the system message and min(message_count, L) other
\* messages, L being max_conversation_length, so never more than L + 1; and
\* an append that returns True leaves the list at least as long as it was
\* (it discards at most one message)
C32_HistoryLength ==
  [][/\ ~session_lock'
          => \A i \in sessions' :
                /\ Len(heap'[i].messages) - 1
                     = Min(heap'[i].message_count, max_conversation_length)
                /\ Len(heap'[i].messages) <= max_conversation_length + 1
     /\ (ret'.op = "add_message" /\ ret'.val = PyBool(TRUE))
          => \A i \in sessions' :
                Len(heap'[i].messages) >= Len(heap[i].messages)]_vars

\* C33: a task that is about to acquire session_lock (at the start of a
\* call, before the second with-block of add_message, at the end of the
\* sweeper's sleep) does not hold it; every holder of the lock releases
\* it; and every call of the store that has begun returns
C33_DeadlockFree ==
  /\ [](\A p \in Clients :
          pc[p] \in {"idle", "add_message_unlocked"} => p \notin holders)
  /\ [](pc[Sweeper] = "sleep" => Sweeper \notin holders)
  /\ \A p \in Clients \cup {Sweeper} : (p \in holders) ~> (p \notin holders)
  /\ \A p \in Clients : (pc[p] # "idle") ~> (pc[p] = "idle")

\* an add_message waits for its second with-block while another task is
\* inside a with-block
C33_Witness ==
  \E p \in Clients :
     /\ pc[p] = "add_message_unlocked"
     /\ session_lock
     /\ holders # {}
     /\ p \notin holders

\* C34: a session enters the registry only under an id that was never
\* used, sent or issued before, and an id that left the registry does not
\* come back.  A chat or voice-chat turn replaces the id it was sent
\* exactly when that id is absent or expired at the lookup; the id is then
\* out of the registry, the new session has a fresh id, the turn keeps that
\* id to its end, every message it appends goes to that session, and a
\* success response carries it.
C34_FreshSessionOnly ==
  [][/\ \A i \in sessions' \ sessions :
           /\ ~Allocated(i)
           /\ i \notin published
           /\ \A q \in Clients : h[q].session_id # i
     /\ \A i \in SessionIds :
           (Allocated(i) /\ i \notin sessions) => i \notin sessions'
     /\ \A p \in Clients :
           LET f == h[p]
               g == h'[p]
           IN /\ (f.at = "get1" /\ g.at # "get1")
                   => /\ (g.at = "recreate") <=> ~Live(f.session_id)
                      /\ g.at = "recreate" => f.session_id \notin sessions'
              /\ (f.at = "recreate" /\ g.at = "get2")
                   => /\ f.session_id \notin sessions'
                      /\ g.session_id # f.session_id
                      /\ g.session_id \in sessions' \ sessions
              /\ (f.at \in {"get2", "add_user", "get3", "complete",
                            "add_assistant"}
                     /\ g.at # "free")
                   => g.session_id = f.session_id
              /\ (ret'.op = "add_message" /\ ret'.task = p
                     /\ f.route \in {"chat", "voice"})
                   => /\ ret'.arg.session_id = f.session_id
                      /\ \A i \in SessionIds \ {f.session_id} :
                            appended'[i] = appended[i]
              /\ (resp'.task = p /\ resp'.status = 200
                     /\ resp'.route \in {"chat", "voice"})
                   => resp'.session_id = f.session_id]_vars

\* a turn that was sent the id of an expired session has just created its
\* new session
C34_Witness ==
  \E p \in Clients :
     /\ h[p].at = "get2"
     /\ ret.op = "create_session"
     /\ ret.task = p
     /\ h[p].session_id \in sessions
     /\ \E old \in published :
           /\ old # h[p].session_id
           /\ old \notin sessions
           /\ Expired(old)

\* C35: a voice-chat turn makes no store call before its transcription has
\* returned: while it waits for transcribe_audio it is in no store
\* operation, nothing is appended and no session is created (only the sweep
\* may remove one).  If transcribe_audio raises, the same step ends the
\* request with status 500 and leaves the registry, every session and the
\* ids drawn as they were; the turn goes on to resolve its session only
\* when transcription gave a text.
C35_TranscribeFirst ==
  [][\A p \in Clients :
       LET f == h[p]
           g == h'[p]
       IN /\ (g.at = "transcribe" /\ f.at # "transcribe")
               => /\ f.at = "free"
                  /\ UNCHANGED <<sessions, heap, appended, nextId>>
          /\ f.at = "transcribe"
               => /\ pc[p] = "idle"
                  /\ pc'[p] = "idle"
                  /\ sessions' \subseteq sessions
                  /\ appended' = appended
                  /\ nextId' = nextId
                  /\ \A i \in sessions' : heap'[i] = heap[i]
          /\ (f.at = "transcribe" /\ g.at # "transcribe")
               => /\ ret'.op = "transcribe_audio"
                  /\ ret'.task = p
                  /\ UNCHANGED <<sessions, heap, appended, nextId>>
                  /\ IF ret'.val \in Exceptions
                     THEN /\ g.at = "free"
                          /\ resp'.task = p
                          /\ resp'.route = "voice"
                          /\ resp'.status = 500
                          /\ resp'.failed = "transcribe_audio"
                     ELSE /\ g.at \in {"create", "get1"}
                          /\ resp' = NoResp
          /\ (resp'.task = p /\ resp'.failed = "transcribe_audio")
               => /\ f.at = "transcribe"
                  /\ ret'.val \in Exceptions
                  /\ UNCHANGED <<sessions, heap, appended, nextId>>]_vars

\* transcribe_audio has just failed for a turn that was sent the id of a
\* session still in the registry
C35_Witness ==
  /\ ret.op = "transcribe_audio"
  /\ ret.val \in Exceptions
  /\ resp.status = 500
  /\ resp.failed = "transcribe_audio"
  /\ resp.session_id \in sessions
  /\ Len(appended[resp.session_id]) > 0

\* C36: get_session, get_messages and get_session_stats change no session
\* object (messages, message_count, created_at, last_activity), append
\* nothing and remove no live session; a session object changes only in a
\* successful add_message addressed to it.  So last_activity stays at the
\* last append (or the creation), and a lookup of a session whose
\* last_activity lies more than session_timeout back finds nothing and
\* removes it, however often the session was read meanwhile.
C36_ReadsDoNotTouch ==
  [][/\ ret'.op \in {"get_session", "get_messages", "get_session_stats"}
          => /\ heap' = heap
             /\ appended' = appended
             /\ nextId' = nextId
             /\ sessions' \subseteq sessions
             /\ \A i \in sessions : ~Expired(i) => i \in sessions'
     /\ ret'.op = "get_session_stats" => sessions' = sessions
     /\ \A i \in SessionIds :
           (Allocated(i) /\ heap'[i] # heap[i])
             => /\ ret'.op = "add_message"
                /\ ret'.val = PyBool(TRUE)
                /\ ret'.arg.session_id = i
                /\ Len(appended'[i]) = Len(appended[i]) + 1
                /\ heap'[i].last_activity = now
                /\ heap'[i].created_at = heap[i].created_at
     /\ ret'.op \in {"get_session", "get_messages"}
          => LET sid == ret'.arg.session_id
             IN IF Live(sid)
                THEN ret'.val # None
                ELSE /\ ret'.val = None
                     /\ sid \notin sessions']_vars

\* a session with an append was read while live, and a later lookup finds
\* it expired
C36_Witness ==
  /\ ret.op \in {"get_session", "get_messages"}
  /\ ret.val = None
  /\ ret.arg.session_id \in SessionIds
  /\ Allocated(ret.arg.session_id)
  /\ Len(appended[ret.arg.session_id]) > 0
  /\ ret.arg.session_id \notin sessions
  /\ Expired(ret.arg.session_id)

\* C37: when the synthesis awaited by generate_speech fails, the call
\* raises the provider's error to its caller (the /api/tts handler answers
\* 500) and the audio store is what it was: no file is created, written,
\* truncated or removed by the call, neither when it starts the synthesis
\* nor when the synthesis fails.
C37_FailedSynthesisKeepsStore ==
  [][\A p \in Clients :
       /\ (pc[p] = "idle" /\ pc'[p] = "text_to_speech")
            => /\ files' = files
               /\ speech'[p].audio_id = KeyOf(speech'[p].call)
       /\ (pc[p] = "text_to_speech" /\ pc'[p] # "text_to_speech")
            => /\ ret'.op = "generate_speech"
               /\ ret'.task = p
               /\ ret'.arg = speech[p].call
               /\ pc'[p] = "idle"
               /\ ret'.val \in Exceptions
                    => /\ files' = files
                       /\ h[p].at # "api"
                            => /\ resp'.task = p
                               /\ resp'.status = 500
                               /\ resp'.failed = "generate_speech"
       /\ (ret'.op = "generate_speech" /\ ret'.task = p
              /\ ret'.val \in Exceptions)
            => files' = files]_vars

\* the synthesis has just failed for a call whose key already has a file
C37_Witness ==
  /\ ret.op = "generate_speech"
  /\ ret.val = Raised("OpenAIError")
  /\ KeyOf(ret.arg) \in DOMAIN files
  /\ files[KeyOf(ret.arg)].bytes > 0

\* C38: the audio a generate_speech call returns is the audio stored under
\* its id; get_audio returns the stored bytes of an id; a call with
\* use_cache true whose key has a file returns that file's bytes and
\* leaves the store as it is; and the bytes stored under an id are
\* replaced only by a call that asked for a new synthesis (use_cache
\* false) -- also when calls for the same text and voice overlap.
C38_StableArtifact ==
  [][/\ (ret'.op = "generate_speech" /\ ret'.val \notin Exceptions)
          => LET key == KeyOf(ret'.arg)
             IN /\ ret'.val.audio_id = key
                /\ key \in DOMAIN files'
                /\ files'[key].bytes = ret'.val.bytes
                /\ (ret'.arg.use_cache /\ key \in DOMAIN files)
                     => /\ ret'.val.bytes = files[key].bytes
                        /\ files' = files
     /\ (ret'.op = "get_audio" /\ ret'.arg.io_ok
            /\ ret'.arg.audio_id \in DOMAIN files)
          => /\ ret'.val = [bytes |-> files[ret'.arg.audio_id].bytes]
             /\ files' = files
     /\ \A k \in DOMAIN files \cap DOMAIN files' :
           files'[k].bytes # files[k].bytes
             => /\ ret'.op = "generate_speech"
                /\ ~ret'.arg.use_cache]_vars

====
